---- MODULE Spec2Model ----
(***************************************************************************)
(* Model of code-file-wrapper: the directory walk and tag serialization of *)
(* write_folder_tags and append_additional_commands (file_ops.rs), the two *)
(* JSON stores (filetypes.rs, presets.rs) and main (main.rs, with the      *)
(* selection window of gui.rs).                                            *)
(*                                                                         *)
(* Specifications: Spec and WalkSpec / FairWalkSpec are calls of           *)
(* write_folder_tags, RootSpec recursive calls on roots of several names,  *)
(* AppendSpec is repeated calls of append_additional_commands, ConfigSpec  *)
(* is calls of get_* and save_* on one store, MainSpec is a run of main,   *)
(* GuiSpec is the window of gui.rs click by click, and SessionSpec is the  *)
(* click on OK in that window followed by the rest of main.                *)
(*                                                                         *)
(* Texts.  A text (a file name, a line of the artifact, a file's content)  *)
(* is a sequence of pieces, each piece a string.  File and folder names    *)
(* are spelled one character per piece, so that to_lowercase, starts_with  *)
(* and Path::extension are computed on characters; string literals of the  *)
(* source are single pieces.  BAD is a code unit that is not valid         *)
(* Unicode: OsStr::to_str is None for any text that holds it.              *)
(*                                                                         *)
(* The artifact (tags_output.txt) is the sequence of the lines written to  *)
(* it; every writeln! appends its lines.                                   *)
(***************************************************************************)
EXTENDS Integers, Sequences, FiniteSets, TLC

VARIABLES
    present,          \* the entries that exist under the root (ids into Universe)
    root_dir,         \* argument dir of write_folder_tags: the root path
    valid_exts,       \* argument valid_exts
    recursive,        \* argument recursive
    ignored_folders,  \* argument ignored_folders
    platform,         \* the build target: "windows" or "unix"
    previous,         \* tags_output.txt as it was before the call
    artifact,         \* tags_output.txt: [exists, lines]
    stderr,           \* paths reported by eprintln!("Skipping ...")
    stack,            \* one frame per active read_dir loop: [dir, todo]
    cur,              \* the directory about to be listed by read_dir
    pc,               \* position in write_folder_tags
    result,           \* return value of write_folder_tags
    unlistable,       \* the directories (paths) on which read_dir fails
    listed,           \* the directories (paths) read_dir has listed so far
    additional_commands, \* argument additional_commands of append_additional_commands
    appender,         \* the append_additional_commands that is called: "file_ops" or "main"
    appends,          \* the calls of append_additional_commands that returned Ok
    append_result,    \* return value of the last call of append_additional_commands
    config,           \* the store in use: "filetypes" or "presets"
    backing,          \* filetypes.json and presets.json: [exists, data, writable, shape]
    history,          \* the calls of get_* and save_* so far, with the list returned or saved
    backing0,         \* filetypes.json and presets.json as they were when the run began
    path_arg,         \* args.path: "none", or what is at the path: "missing", "dir", "file"
    user,             \* what the user does in the dialogs
    selector,         \* the ModeSelector that is built: that of "main" (main.rs) or of "gui" (gui.rs)
    exit_status,      \* "running", or the status the process exited with: "0", "1"
    invoked,          \* write_folder_tags has been called
    clipboard,        \* the system clipboard: [set, lines]
    copy_result,      \* return value of copy_to_clipboard
    preset_texts,     \* the caller's Vec<String> the window pushes preset texts to
    selected_dir,     \* the caller's Option<PathBuf>: "none" or "dir"
    selected_mode,    \* the caller's Option<String>: "none" or a mode
    presets,          \* ModeSelector.presets
    selected_presets, \* ModeSelector.selected_presets
    warning_message,  \* ModeSelector.warning_message
    open_manage_presets, \* ModeSelector.open_manage_presets
    open_preset_index,   \* ModeSelector.open_preset_index: <<>> for None, <<i>> for Some(i - 1)
    window,           \* the viewport: "none", "open", "closed"
    open_headers,     \* the indices whose CollapsingHeader egui keeps expanded
    ids,              \* for each entry of presets, which preset it is
    designated,       \* the preset open_preset_index pointed to when it was set
    clicked,          \* the widget clicked in the last frame
    clicks            \* the clicks so far

vars == <<present, root_dir, valid_exts, recursive, ignored_folders, platform, previous,
          artifact, stderr, stack, cur, pc, result, unlistable, listed,
          additional_commands, appender, appends, append_result,
          config, backing, history,
          backing0, path_arg, user, selector, exit_status, invoked, clipboard,
          copy_result,
          preset_texts, selected_dir, selected_mode, presets, selected_presets,
          warning_message, open_manage_presets, open_preset_index, window,
          open_headers, ids, designated, clicked, clicks>>

inputs == <<present, root_dir, valid_exts, recursive, ignored_folders, platform, previous,
            unlistable>>

\* the state of the walk
walk == <<stderr, stack, cur, result, listed>>

appendVars == <<additional_commands, appender, appends, append_result>>

storeVars == <<config, backing, history>>

mainVars == <<backing0, path_arg, user, selector, exit_status, invoked, clipboard,
             copy_result>>

\* the window of gui.rs: the fields of ModeSelector and what egui keeps for it
windowVars == <<selected_dir, selected_mode, presets, selected_presets,
               warning_message, open_manage_presets, open_preset_index, window,
               open_headers, ids, designated, clicked, clicks>>

guiVars == <<preset_texts, windowVars>>

\* what write_folder_tags neither reads nor writes
beyond == <<appendVars, storeVars, mainVars, guiVars>>

----------------------------------------------------------------------------
(* Bounds *)

MaxEntries == 4

\* the largest directory tree of the runs with directories that cannot be listed
MaxWalkEntries == 3

\* the most calls of append_additional_commands on one artifact
MaxAppends == 3

\* the most calls of get_* and save_* in one run of a store
MaxConfigOps == 3

\* the largest directory tree of the runs of main
MaxMainEntries == 1

\* the clicks followed in the window of gui.rs
MaxClicks == 4

----------------------------------------------------------------------------
(* Texts *)

FILETYPES_FILE == "filetypes.json"

PRESET_FILE == "presets.json"

\* a run without dialogs
NoUser == [dir |-> "none", mode |-> "none", clipboard |-> FALSE, text |-> <<>>,
           saves_presets |-> FALSE]

\* a backing file that does not exist, in a directory where it can be created
NoFile == [exists |-> FALSE, data |-> <<>>, writable |-> TRUE, shape |-> "missing"]

\* no window of gui.rs has been built
NoWindow ==
    /\ preset_texts = <<>>
    /\ selected_dir = "none"
    /\ selected_mode = "none"
    /\ presets = <<>>
    /\ selected_presets = {}
    /\ warning_message = ""
    /\ open_manage_presets = FALSE
    /\ open_preset_index = <<>>
    /\ window = "none"
    /\ open_headers = {}
    /\ ids = <<>>
    /\ designated = 0
    /\ clicked = "none"
    /\ clicks = 0

BAD == "<not-unicode>"

UpperToLower ==
    [c \in {"A","B","C","D","E","F","G","H","I","J","K","L","M",
            "N","O","P","Q","R","S","T","U","V","W","X","Y","Z"} |->
        CASE c = "A" -> "a" [] c = "B" -> "b" [] c = "C" -> "c" [] c = "D" -> "d"
          [] c = "E" -> "e" [] c = "F" -> "f" [] c = "G" -> "g" [] c = "H" -> "h"
          [] c = "I" -> "i" [] c = "J" -> "j" [] c = "K" -> "k" [] c = "L" -> "l"
          [] c = "M" -> "m" [] c = "N" -> "n" [] c = "O" -> "o" [] c = "P" -> "p"
          [] c = "Q" -> "q" [] c = "R" -> "r" [] c = "S" -> "s" [] c = "T" -> "t"
          [] c = "U" -> "u" [] c = "V" -> "v" [] c = "W" -> "w" [] c = "X" -> "x"
          [] c = "Y" -> "y" [] c = "Z" -> "z"]

\* str::to_lowercase
to_lowercase(s) ==
    [i \in 1..Len(s) |-> IF s[i] \in DOMAIN UpperToLower THEN UpperToLower[s[i]] ELSE s[i]]

\* a variant of starts_with that looks at the last character
starts_with_AtEnd(s, c) == Len(s) > 0 /\ s[Len(s)] = c

\* str::starts_with(char)
starts_with(s, c) == Len(s) > 0 /\ s[1] = c

\* OsStr::to_str succeeds
is_utf8(s) == \A i \in 1..Len(s) : s[i] # BAD

\* slice::contains
contains(list, x) == \E i \in 1..Len(list) : list[i] = x

----------------------------------------------------------------------------
(* Paths.  A path is the sequence of its components. *)

\* std::path::MAIN_SEPARATOR of the build target
MAIN_SEPARATOR(os) == IF os = "windows" THEN "\\" ELSE "/"

\* Path::file_name
file_name(path) == path[Len(path)]

LastDot(name) ==
    LET dots == {i \in 1..Len(name) : name[i] = "."}
    IN  IF dots = {} THEN 0 ELSE CHOOSE i \in dots : \A j \in dots : j <= i

\* Path::extension is Some: the name has a '.' that is not its first character
has_extension(path) == LastDot(file_name(path)) > 1

\* Path::extension: the part of the file name after its last '.'
extension(path) ==
    LET name == file_name(path)
    IN  SubSeq(name, LastDot(name) + 1, Len(name))

\* Path::strip_prefix is Ok
has_prefix(path, base) ==
    Len(base) <= Len(path) /\ SubSeq(path, 1, Len(base)) = base

\* a variant of strip_prefix that keeps only the path below the immediate parent
strip_prefix_FromParent(path, base) == SubSeq(path, Len(path), Len(path))

\* Path::strip_prefix: the components after base
strip_prefix(path, base) == SubSeq(path, Len(base) + 1, Len(path))

\* Path::to_str is Some
path_is_utf8(path) == \A i \in 1..Len(path) : is_utf8(path[i])

RECURSIVE JoinWith(_, _)
JoinWith(path, sep) ==
    IF Len(path) = 0 THEN <<>>
    ELSE IF Len(path) = 1 THEN path[1]
    ELSE path[1] \o <<sep>> \o JoinWith(Tail(path), sep)

\* Path::to_str: the components joined by the target's separator
to_str(path, os) == JoinWith(path, MAIN_SEPARATOR(os))

----------------------------------------------------------------------------
(* The file system under the root.  Universe lists the candidate entries;  *)
(* a run's directory tree is a parent-closed set of them.                  *)

rs(stem) == stem \o <<".", "r", "s">>

F(parent, name, read, content) ==
    [parent |-> parent, kind |-> "file", name |-> name, read |-> read, content |-> content]

D(parent, name) ==
    [parent |-> parent, kind |-> "dir", name |-> name, read |-> "is a directory", content |-> <<>>]

\* read is the outcome of std::fs::read_to_string on the entry: "ok", or the
\* error it returns
Universe == <<
    F(0,  rs(<<"a">>),                      "ok", <<"fn main(){}">>),    \* a.rs
    F(0,  <<"n", ".", "m", "d">>,           "ok", <<"# notes">>),        \* n.md
    F(0,  <<"b", ".", "R", "S">>,           "ok", <<"upper">>),          \* b.RS
    F(0,  <<"R", "E", "A", "D", "M", "E">>, "ok", <<"readme">>),         \* README
    F(0,  <<"c", ".", "r", BAD>>,           "ok", <<"odd extension">>),  \* c.r<BAD>
    F(0,  rs(<<BAD>>),                      "ok", <<"odd name">>),       \* <BAD>.rs
    F(0,  rs(<<"b", "i", "n">>),            "invalid utf-8", <<BAD>>),   \* bin.rs
    [parent |-> 0, kind |-> "other", name |-> rs(<<"x">>),
        read |-> "ok", content |-> <<"device">>],                        \* x.rs, not a regular file
    D(0,  <<"s", "u", "b">>),                                            \* sub/
    F(9,  rs(<<"f", "i", "l", "e">>),       "ok", <<"nested">>),         \* sub/file.rs
    F(9,  rs(<<"l", "o", "c", "k">>),       "permission denied", <<"locked">>),  \* sub/lock.rs
    D(9,  <<".", "g", "i", "t">>),                                       \* sub/.git/
    F(12, rs(<<"b">>),                      "ok", <<"hidden">>),         \* sub/.git/b.rs
    D(0,  <<"T", "a", "r", "g", "e", "t">>),                             \* Target/
    D(14, <<"t", "a", "r", "g", "e", "t">>),                             \* Target/target/
    F(15, rs(<<"d">>),                      "ok", <<"deep">>)            \* Target/target/d.rs
>>

Nodes == 1..Len(Universe)

RECURSIVE TreesUpTo(_)
\* the parent-closed sets of at most k entries
TreesUpTo(k) ==
    IF k = 0 THEN {{}}
    ELSE LET smaller == TreesUpTo(k - 1)
         IN  smaller \cup
             UNION { { S \cup {n} : n \in {m \in Nodes \ S :
                                              \/ Universe[m].parent = 0
                                              \/ Universe[m].parent \in S} } : S \in smaller }

Trees == TreesUpTo(MaxEntries)

RECURSIVE PathOf(_)
\* the path of entry n: the root path followed by the names down to n
PathOf(n) ==
    IF Universe[n].parent = 0 THEN Append(root_dir, Universe[n].name)
    ELSE Append(PathOf(Universe[n].parent), Universe[n].name)

Exists(path) == \E n \in present : PathOf(n) = path

NodeAt(path) == CHOOSE n \in present : PathOf(n) = path

\* Path::is_dir
is_dir(path) == Exists(path) /\ Universe[NodeAt(path)].kind = "dir"

\* Path::is_file
is_file(path) == Exists(path) /\ Universe[NodeAt(path)].kind = "file"

\* the names read_dir yields for a directory, in no particular order
read_dir(path) ==
    {Universe[n].name : n \in {m \in present : PathOf(m) = Append(path, Universe[m].name)}}

\* std::fs::read_to_string is Ok
read_ok(path) == Universe[NodeAt(path)].read = "ok"

contents_of(path) == Universe[NodeAt(path)].content

----------------------------------------------------------------------------
(* file_ops.rs *)

\* a variant of is_human_readable that ignores the letter case of the extension
is_human_readable_IgnoresCase(path, exts) ==
    IF has_extension(path) /\ is_utf8(extension(path))
    THEN contains(exts, to_lowercase(extension(path)))
    ELSE FALSE

\* is_human_readable
is_human_readable(path, exts) ==
    IF has_extension(path) /\ is_utf8(extension(path))
    THEN contains(exts, extension(path))
    ELSE FALSE

\* a variant of TagBlock that closes with the opening tag
TagBlock_ClosesWithOpenTag(rel_str, contents) ==
    << <<"<">> \o rel_str \o <<">">>,
       contents,
       <<"<">> \o rel_str \o <<">">>,
       <<>> >>

\* the three writeln! of a file block: "<{}>", "{}", "</{}>\n"
TagBlock(rel_str, contents) ==
    << <<"<">> \o rel_str \o <<">">>,
       contents,
       <<"</">> \o rel_str \o <<">">>,
       <<>> >>

\* the four writeln! of the instructional footer
Footer ==
    << <<"* The above is the current state of my project.">>,
       <<"* Each node above is an XML-wrapped code snippet using relative Windows-style file path tags.">>,
       <<"* Provide context above and below code changes to be explicit on where any change should occur.">>,
       <<"* Under text under [Additional Commands] should be read very carefully and followed absolutely">> >>

\* what an earlier run left in tags_output.txt
OldArtifact ==
    Footer \o << <<>>, <<"[Additional Commands]">>, <<"old commands">>, <<>> >>

Top == stack[Len(stack)]

\* the loop moves on to the next entry of the directory on top of the stack
Advance(name) ==
    [stack EXCEPT ![Len(stack)].todo = @ \ {name}]

\* a `?` returns the io::Error of the failed call through every caller, which
\* drops every directory iterator
Fail(call) ==
    /\ pc' = "done"
    /\ result' = <<"Err", call>>
    /\ stack' = <<>>
    /\ cur' = <<>>

Write(lines) == artifact' = [artifact EXCEPT !.lines = @ \o lines]

Init ==
    /\ present \in Trees
    /\ root_dir = << <<"p", "r", "o", "j">> >>
    /\ valid_exts = << <<"r", "s">>, <<"m", "d">> >>
    /\ recursive \in BOOLEAN
    /\ ignored_folders \in { <<>>,
                             << <<"t", "a", "r", "g", "e", "t">> >>,
                             << <<"T", "a", "r", "g", "e", "t">> >> }
    /\ platform \in {"windows", "unix"}
    /\ previous = [exists |-> TRUE, lines |-> OldArtifact]
    /\ artifact = previous
    /\ stderr = <<>>
    /\ stack = <<>>
    /\ cur = root_dir
    /\ pc = "create"
    /\ result = <<"none">>
    /\ unlistable = {}
    /\ listed = {}
    /\ additional_commands = <<>>
    /\ appender = "file_ops"
    /\ appends = 0
    /\ append_result = <<"none">>
    /\ config = "presets"
    /\ backing = [f \in {FILETYPES_FILE, PRESET_FILE} |-> NoFile]
    /\ history = <<>>
    /\ backing0 = backing
    /\ path_arg = "dir"
    /\ user = NoUser
    /\ selector = "main"
    /\ exit_status = "running"
    /\ invoked = TRUE
    /\ clipboard = [set |-> FALSE, lines |-> <<>>]
    /\ copy_result = <<"none">>
    /\ NoWindow

\* a variant of CreateOutput that opens the artifact without truncating it
CreateOutput_KeepsContent ==
    /\ pc = "create"
    /\ \/ /\ artifact' = [exists |-> TRUE, lines |-> artifact.lines]
          /\ pc' = "read_dir"
          /\ UNCHANGED result
          /\ UNCHANGED <<stack, cur>>
       \/ /\ Fail("File::create")
          /\ UNCHANGED artifact
    /\ UNCHANGED <<inputs, beyond, stderr, listed>>

\* File::create("tags_output.txt")?
CreateOutput ==
    /\ pc = "create"
    /\ \/ /\ artifact' = [exists |-> TRUE, lines |-> <<>>]
          /\ pc' = "read_dir"
          /\ UNCHANGED result
          /\ UNCHANGED <<stack, cur>>
       \/ /\ Fail("File::create")
          /\ UNCHANGED artifact
    /\ UNCHANGED <<inputs, beyond, stderr, listed>>

\* a variant of ReadDir that applies the test of the folder name to every
\* directory it is given, the root included
ReadDir_TestsEveryName ==
    /\ pc = "read_dir"
    /\ \/ /\ cur \notin unlistable
          /\ stack' = Append(stack,
                [dir |-> cur,
                 todo |-> IF \/ contains(ignored_folders, to_lowercase(file_name(cur)))
                             \/ starts_with(to_lowercase(file_name(cur)), ".")
                          THEN {} ELSE read_dir(cur)])
          /\ listed' = listed \cup {cur}
          /\ cur' = <<>>
          /\ pc' = "loop"
          /\ UNCHANGED result
       \/ /\ Fail("read_dir")
          /\ UNCHANGED listed
    /\ UNCHANGED <<inputs, beyond, artifact, stderr>>

\* a variant of ReadDir that treats a directory it cannot list as an empty one
ReadDir_SkipsUnlistable ==
    /\ pc = "read_dir"
    /\ \/ /\ stack' = Append(stack, [dir |-> cur,
                                      todo |-> IF cur \in unlistable THEN {} ELSE read_dir(cur)])
          /\ listed' = listed \cup {cur}
          /\ cur' = <<>>
          /\ pc' = "loop"
          /\ UNCHANGED result
       \/ /\ Fail("read_dir")
          /\ UNCHANGED listed
    /\ UNCHANGED <<inputs, beyond, artifact, stderr>>

\* read_dir(dir)? at the head of the loop, of write_folder_tags and of
\* write_folder_tags_recursive
ReadDir ==
    /\ pc = "read_dir"
    /\ \/ /\ cur \notin unlistable
          /\ stack' = Append(stack, [dir |-> cur, todo |-> read_dir(cur)])
          /\ listed' = listed \cup {cur}
          /\ cur' = <<>>
          /\ pc' = "loop"
          /\ UNCHANGED result
       \/ /\ Fail("read_dir")
          /\ UNCHANGED listed
    /\ UNCHANGED <<inputs, beyond, artifact, stderr>>

\* a variant of ReadFailed that returns the error of the read
ReadFailed_Propagates(name, path) ==
    /\ Fail("read_to_string")
    /\ UNCHANGED <<artifact, stderr>>

\* the arm Err(e) of `match std::fs::read_to_string(&path)`
ReadFailed(name, path) ==
    /\ stderr' = Append(stderr, path)
    /\ stack' = Advance(name)
    /\ UNCHANGED <<artifact, cur, pc, result>>

\* the body of `if path.is_file() && is_human_readable(..)`: strip_prefix,
\* to_str, read_to_string and the three writeln!
SerializeFile(name, path, base) ==
    IF has_prefix(path, base) /\ path_is_utf8(strip_prefix(path, base))
    THEN LET rel_str == to_str(strip_prefix(path, base), platform)
             block == TagBlock(rel_str, contents_of(path))
         IN  \/ /\ read_ok(path)                \* Ok(contents)
                /\ Write(block)
                /\ stack' = Advance(name)
                /\ UNCHANGED <<stderr, cur, pc, result>>
             \/ /\ read_ok(path)                \* Ok(contents), a writeln! fails
                /\ \E k \in 0..2 : Write(SubSeq(block, 1, k))
                /\ Fail("writeln")
                /\ UNCHANGED stderr
             \/ /\ ~read_ok(path)               \* Err(e)
                /\ ReadFailed(name, path)
    ELSE /\ stack' = Advance(name)
         /\ UNCHANGED <<artifact, stderr, cur, pc, result>>

\* the body of `for entry in read_dir(dir)?` in write_folder_tags
FlatBody ==
    \E name \in Top.todo :
        LET path == Append(Top.dir, name)
        IN  \/ /\ is_file(path) /\ is_human_readable(path, valid_exts)
               /\ SerializeFile(name, path, root_dir)
            \/ /\ ~(is_file(path) /\ is_human_readable(path, valid_exts))
               /\ stack' = Advance(name)
               /\ UNCHANGED <<artifact, stderr, cur, pc, result>>
            \/ /\ Fail("entry")                 \* entry?
               /\ UNCHANGED <<artifact, stderr>>

\* the body of `for entry in read_dir(dir)?` in write_folder_tags_recursive
RecursiveBody ==
    \E name \in Top.todo :
        LET path == Append(Top.dir, name)
            folder_name == to_lowercase(file_name(path))
            skipped == /\ is_utf8(file_name(path))
                       /\ contains(ignored_folders, folder_name) \/ starts_with(folder_name, ".")
        IN  \/ /\ is_dir(path)
               /\ skipped
               /\ stack' = Advance(name)        \* continue
               /\ UNCHANGED <<artifact, stderr, cur, pc, result>>
            \/ /\ is_dir(path)
               /\ ~skipped
               /\ stack' = Advance(name)
               /\ cur' = path                   \* write_folder_tags_recursive(root_dir, &path, ..)?
               /\ pc' = "read_dir"
               /\ UNCHANGED <<artifact, stderr, result>>
            \/ /\ ~is_dir(path)
               /\ is_file(path) /\ is_human_readable(path, valid_exts)
               /\ SerializeFile(name, path, root_dir)
            \/ /\ ~is_dir(path)
               /\ ~(is_file(path) /\ is_human_readable(path, valid_exts))
               /\ stack' = Advance(name)
               /\ UNCHANGED <<artifact, stderr, cur, pc, result>>
            \/ /\ Fail("entry")                 \* entry?
               /\ UNCHANGED <<artifact, stderr>>

\* a variant of LoopFlat that descends into subdirectories
LoopFlat_Descends ==
    /\ pc = "loop"
    /\ ~recursive
    /\ RecursiveBody
    /\ UNCHANGED <<inputs, beyond, listed>>

\* one iteration of the loop of write_folder_tags (recursive = false)
LoopFlat ==
    /\ pc = "loop"
    /\ ~recursive
    /\ FlatBody
    /\ UNCHANGED <<inputs, beyond, listed>>

\* one iteration of the loop of write_folder_tags_recursive
LoopRecursive ==
    /\ pc = "loop"
    /\ recursive
    /\ RecursiveBody
    /\ UNCHANGED <<inputs, beyond, listed>>

\* a variant of EndLoop in which the exhausted iterator never returns None:
\* the loop waits for a further entry
EndLoop_WaitsForEntry ==
    /\ pc = "loop"
    /\ Top.todo = {}
    /\ UNCHANGED vars

\* the loop over a directory ends: Ok(()) of write_folder_tags_recursive,
\* or the end of the for loop of write_folder_tags
EndLoop ==
    /\ pc = "loop"
    /\ Top.todo = {}
    /\ stack' = SubSeq(stack, 1, Len(stack) - 1)
    /\ pc' = IF Len(stack) = 1 THEN "footer" ELSE "loop"
    /\ UNCHANGED <<inputs, beyond, artifact, stderr, cur, result, listed>>

\* a variant of WriteFooter that writes the footer only after some file block
WriteFooter_OnlyAfterBlocks ==
    /\ pc = "footer"
    /\ \/ /\ IF artifact.lines = <<>> THEN UNCHANGED artifact ELSE Write(Footer)
          /\ pc' = "done"
          /\ result' = <<"Ok">>
          /\ UNCHANGED <<stack, cur>>
       \/ /\ \E k \in 0..3 : Write(SubSeq(Footer, 1, k))
          /\ Fail("writeln")
    /\ UNCHANGED <<inputs, beyond, stderr, listed>>

\* the four writeln! of the footer, then Ok(())
WriteFooter ==
    /\ pc = "footer"
    /\ \/ /\ Write(Footer)
          /\ pc' = "done"
          /\ result' = <<"Ok">>
          /\ UNCHANGED <<stack, cur>>
       \/ /\ \E k \in 0..3 : Write(SubSeq(Footer, 1, k))
          /\ Fail("writeln")
    /\ UNCHANGED <<inputs, beyond, stderr, listed>>

Next ==
    \/ CreateOutput
    \/ ReadDir
    \/ LoopFlat
    \/ LoopRecursive
    \/ EndLoop
    \/ WriteFooter

Spec == Init /\ [][Next]_vars

\* the calls on a tree in which read_dir fails on at most one directory, the
\* root or a subdirectory
InitWalk ==
    /\ present \in TreesUpTo(MaxWalkEntries)
    /\ root_dir = << <<"p", "r", "o", "j">> >>
    /\ valid_exts = << <<"r", "s">>, <<"m", "d">> >>
    /\ recursive \in BOOLEAN
    /\ ignored_folders \in { <<>>, << <<"t", "a", "r", "g", "e", "t">> >> }
    /\ platform \in {"windows", "unix"}
    /\ previous = [exists |-> TRUE, lines |-> OldArtifact]
    /\ artifact = previous
    /\ stderr = <<>>
    /\ stack = <<>>
    /\ cur = root_dir
    /\ pc = "create"
    /\ result = <<"none">>
    /\ unlistable \in {{}} \cup
            { {path} : path \in {root_dir} \cup
                {PathOf(n) : n \in {m \in present : Universe[m].kind = "dir"}} }
    /\ listed = {}
    /\ additional_commands = <<>>
    /\ appender = "file_ops"
    /\ appends = 0
    /\ append_result = <<"none">>
    /\ config = "presets"
    /\ backing = [f \in {FILETYPES_FILE, PRESET_FILE} |-> NoFile]
    /\ history = <<>>
    /\ backing0 = backing
    /\ path_arg = "dir"
    /\ user = NoUser
    /\ selector = "main"
    /\ exit_status = "running"
    /\ invoked = TRUE
    /\ clipboard = [set |-> FALSE, lines |-> <<>>]
    /\ copy_result = <<"none">>
    /\ NoWindow

WalkSpec == InitWalk /\ [][Next]_vars

\* the walk is one sequential call: it keeps taking its next step
FairWalkSpec == WalkSpec /\ WF_vars(Next)

\* calls of write_folder_tags on a root whose own name is ordinary,
\* starts with '.', or is an entry of ignored_folders
InitRoot ==
    /\ present \in TreesUpTo(MaxWalkEntries)
    /\ root_dir \in { << <<"p", "r", "o", "j">> >>,
                      << <<".", "p", "r", "o", "j">> >>,
                      << <<"t", "a", "r", "g", "e", "t">> >> }
    /\ valid_exts = << <<"r", "s">>, <<"m", "d">> >>
    /\ recursive \in BOOLEAN
    /\ ignored_folders \in { <<>>, << <<"t", "a", "r", "g", "e", "t">> >> }
    /\ platform = "windows"
    /\ previous = [exists |-> TRUE, lines |-> OldArtifact]
    /\ artifact = previous
    /\ stderr = <<>>
    /\ stack = <<>>
    /\ cur = root_dir
    /\ pc = "create"
    /\ result = <<"none">>
    /\ unlistable = {}
    /\ listed = {}
    /\ additional_commands = <<>>
    /\ appender = "file_ops"
    /\ appends = 0
    /\ append_result = <<"none">>
    /\ config = "presets"
    /\ backing = [f \in {FILETYPES_FILE, PRESET_FILE} |-> NoFile]
    /\ history = <<>>
    /\ backing0 = backing
    /\ path_arg = "dir"
    /\ user = NoUser
    /\ selector = "main"
    /\ exit_status = "running"
    /\ invoked = TRUE
    /\ clipboard = [set |-> FALSE, lines |-> <<>>]
    /\ copy_result = <<"none">>
    /\ NoWindow

RootSpec == InitRoot /\ [][Next]_vars

----------------------------------------------------------------------------
(* append_additional_commands: file_ops.rs and, under the same name, the   *)
(* private function of main.rs that main calls.                            *)

Whitespace == {" ", "\t", "\n", "\r"}

\* str::trim().is_empty()
trim_is_empty(text) == \A i \in 1..Len(text) : text[i] \in Whitespace

SectionHeader == <<"[Additional Commands]">>

\* the lines of writeln!(file, "\n[Additional Commands]")
HeaderLines == << <<>>, SectionHeader >>

\* the lines of the second writeln!: "{}\n" in file_ops.rs; in main.rs the text
\* "No additional commands provided.\n" takes the place of a blank argument
BodyLines(which, text) ==
    IF which = "main" /\ trim_is_empty(text)
    THEN << <<"No additional commands provided.">>, <<>> >>
    ELSE << text, <<>> >>

\* a variant of append_additional_commands that writes no second section
append_additional_commands_Deduplicates(which, text) ==
    /\ \/ /\ artifact' = [exists |-> TRUE,
                          lines |-> IF \E i \in 1..Len(artifact.lines) :
                                            artifact.lines[i] = SectionHeader
                                    THEN artifact.lines
                                    ELSE artifact.lines \o HeaderLines \o BodyLines(which, text)]
          /\ append_result' = <<"Ok">>
          /\ appends' = appends + 1
       \/ /\ UNCHANGED <<artifact, appends>>
          /\ append_result' = <<"Err", "open">>
    /\ UNCHANGED <<additional_commands, appender>>

\* append_additional_commands(file_path, additional_commands): open with
\* create(true).append(true), two writeln!, Ok(())
append_additional_commands(which, text) ==
    /\ \/ /\ artifact' = [exists |-> TRUE,
                          lines |-> artifact.lines \o HeaderLines \o BodyLines(which, text)]
          /\ append_result' = <<"Ok">>
          /\ appends' = appends + 1
       \/ /\ UNCHANGED <<artifact, appends>>          \* open(file_path)?
          /\ append_result' = <<"Err", "open">>
       \/ /\ \E k \in 0..1 :                          \* the first writeln! fails
                artifact' = [exists |-> TRUE,
                             lines |-> artifact.lines \o SubSeq(HeaderLines, 1, k)]
          /\ append_result' = <<"Err", "writeln">>
          /\ UNCHANGED appends
       \/ /\ \E k \in 0..1 :                          \* the second writeln! fails
                artifact' = [exists |-> TRUE,
                             lines |-> artifact.lines \o HeaderLines
                                           \o SubSeq(BodyLines(which, text), 1, k)]
          /\ append_result' = <<"Err", "writeln">>
          /\ UNCHANGED appends
    /\ UNCHANGED <<additional_commands, appender>>

\* the artifacts a call of append_additional_commands can find: none, the
\* output of write_folder_tags, or one that already has a section
InitAppend ==
    /\ present = {}
    /\ root_dir = << <<"p", "r", "o", "j">> >>
    /\ valid_exts = << <<"r", "s">>, <<"m", "d">> >>
    /\ recursive = FALSE
    /\ ignored_folders = <<>>
    /\ platform \in {"windows", "unix"}
    /\ previous \in { [exists |-> FALSE, lines |-> <<>>],
                      [exists |-> TRUE, lines |-> Footer],
                      [exists |-> TRUE, lines |-> OldArtifact] }
    /\ artifact = previous
    /\ stderr = <<>>
    /\ stack = <<>>
    /\ cur = <<>>
    /\ pc = "append"
    /\ result = <<"none">>
    /\ unlistable = {}
    /\ listed = {}
    /\ additional_commands \in { <<>>, <<" ", "\n">>,
                                 <<"T", "O", "D", "O">>, <<"old commands">> }
    /\ appender \in {"file_ops", "main"}
    /\ appends = 0
    /\ append_result = <<"none">>
    /\ config = "presets"
    /\ backing = [f \in {FILETYPES_FILE, PRESET_FILE} |-> NoFile]
    /\ history = <<>>
    /\ backing0 = backing
    /\ path_arg = "dir"
    /\ user = NoUser
    /\ selector = "main"
    /\ exit_status = "running"
    /\ invoked = TRUE
    /\ clipboard = [set |-> FALSE, lines |-> <<>>]
    /\ copy_result = <<"none">>
    /\ NoWindow

\* one more call with the same arguments on the same artifact
AppendAgain ==
    /\ pc = "append"
    /\ appends < MaxAppends
    /\ append_result[1] # "Err"
    /\ append_additional_commands(appender, additional_commands)
    /\ UNCHANGED <<inputs, walk, pc, storeVars, mainVars, guiVars>>

NextAppend == AppendAgain

AppendSpec == InitAppend /\ [][NextAppend]_vars

----------------------------------------------------------------------------
(* serde_json, for Vec<FileTypeGroup> and Vec<PresetCommand>.  A JSON text *)
(* is a sequence of pieces: the structural characters, the quote, the      *)
(* backslash, white space, and the pieces of the strings.                  *)

JsonWhitespace == {" ", "  ", "\n", "\t", "\r"}

\* the character an escape sequence stands for
Unescape ==
    [c \in {"\"", "\\", "/", "n", "t", "r"} |->
        CASE c = "n" -> "\n" [] c = "t" -> "\t" [] c = "r" -> "\r" [] OTHER -> c]

\* a variant of EscapeOf that writes every piece as it is
EscapeOf_Raw(piece) ==
    <<piece>>

\* how the serializer writes one piece of a string
EscapeOf(piece) ==
    CASE piece = "\"" -> <<"\\", "\"">>
      [] piece = "\\" -> <<"\\", "\\">>
      [] piece = "\n" -> <<"\\", "n">>
      [] piece = "\t" -> <<"\\", "t">>
      [] piece = "\r" -> <<"\\", "r">>
      [] OTHER -> <<piece>>

RECURSIVE escape(_)
escape(text) ==
    IF text = <<>> THEN <<>> ELSE EscapeOf(Head(text)) \o escape(Tail(text))

\* a string literal
JsonString(text) == <<"\"">> \o escape(text) \o <<"\"">>

\* a line break followed by n levels of indentation
NewLine(n) == <<"\n">> \o [i \in 1..n |-> "  "]

RECURSIVE PrettyItems(_, _, _)
\* the items of an array, each on its own line at depth n; items are texts
PrettyItems(items, k, n) ==
    IF k > Len(items) THEN <<>>
    ELSE NewLine(n) \o items[k]
         \o (IF k < Len(items) THEN <<",">> ELSE <<>>)
         \o PrettyItems(items, k + 1, n)

\* an array at depth n
PrettyArray(items, n) ==
    IF items = <<>> THEN <<"[", "]">>
    ELSE <<"[">> \o PrettyItems(items, 1, n + 1) \o NewLine(n) \o <<"]">>

\* the name of the second field of a record of the store
SecondKey(kind) == IF kind = "filetypes" THEN <<"extensions">> ELSE <<"text">>

\* FileTypeGroup { name, extensions } or PresetCommand { name, text }
Record(kind, name, second) ==
    IF kind = "filetypes" THEN [name |-> name, extensions |-> second]
    ELSE [name |-> name, text |-> second]

\* an object at depth n
PrettyRecord(kind, r, n) ==
    <<"{">>
    \o NewLine(n + 1) \o JsonString(<<"name">>) \o <<":", " ">> \o JsonString(r.name)
    \o <<",">>
    \o NewLine(n + 1) \o JsonString(SecondKey(kind)) \o <<":", " ">>
    \o (IF kind = "filetypes"
        THEN PrettyArray([i \in 1..Len(r.extensions) |-> JsonString(r.extensions[i])], n + 1)
        ELSE JsonString(r.text))
    \o NewLine(n) \o <<"}">>

\* serde_json::to_string_pretty
to_string_pretty(kind, list) ==
    PrettyArray([i \in 1..Len(list) |-> PrettyRecord(kind, list[i], 1)], 0)

NoParse == [ok |-> FALSE, val |-> <<>>, next |-> 0]

Parsed(val, next) == [ok |-> TRUE, val |-> val, next |-> next]

\* the piece at position i, or the end of the input
At(d, i) == IF i <= Len(d) THEN d[i] ELSE "<eof>"

RECURSIVE SkipWs(_, _)
SkipWs(d, i) ==
    IF i <= Len(d) /\ d[i] \in JsonWhitespace THEN SkipWs(d, i + 1) ELSE i

RECURSIVE ScanString(_, _, _)
\* the pieces of a string up to its closing quote
ScanString(d, j, acc) ==
    IF j > Len(d) THEN NoParse
    ELSE IF d[j] = "\"" THEN Parsed(acc, j + 1)
    ELSE IF d[j] = "\\"
         THEN IF j + 1 <= Len(d) /\ d[j + 1] \in DOMAIN Unescape
              THEN ScanString(d, j + 2, Append(acc, Unescape[d[j + 1]]))
              ELSE NoParse
    ELSE IF d[j] \in {"\n", "\t", "\r"} THEN NoParse     \* control character in a string
    ELSE ScanString(d, j + 1, Append(acc, d[j]))

ParseString(d, i) ==
    IF At(d, i) = "\"" THEN ScanString(d, i + 1, <<>>) ELSE NoParse

RECURSIVE ScanStrings(_, _, _)
\* the elements of an array of strings, from element position i
ScanStrings(d, i, acc) ==
    LET s == ParseString(d, SkipWs(d, i))
    IN  IF ~s.ok THEN NoParse
        ELSE LET j == SkipWs(d, s.next)
             IN  IF At(d, j) = "," THEN ScanStrings(d, j + 1, Append(acc, s.val))
                 ELSE IF At(d, j) = "]" THEN Parsed(Append(acc, s.val), j + 1)
                 ELSE NoParse

ParseStrings(d, i) ==
    IF At(d, i) # "[" THEN NoParse
    ELSE LET j == SkipWs(d, i + 1)
         IN  IF At(d, j) = "]" THEN Parsed(<<>>, j + 1) ELSE ScanStrings(d, j, <<>>)

\* the value of a field: a known field has the type of the struct's field, the
\* value of an unknown field is read and ignored
ParseValue(kind, key, d, i) ==
    IF key = <<"name">> THEN ParseString(d, i)
    ELSE IF key = SecondKey(kind)
         THEN IF kind = "filetypes" THEN ParseStrings(d, i) ELSE ParseString(d, i)
    ELSE IF At(d, i) = "[" THEN ParseStrings(d, i) ELSE ParseString(d, i)

RECURSIVE ScanFields(_, _, _, _)
\* the fields of an object, from key position i; got holds the fields read so
\* far, each as a sequence of length 0 or 1
ScanFields(kind, d, i, got) ==
    LET k == ParseString(d, SkipWs(d, i))
    IN  IF ~k.ok THEN NoParse
        ELSE
        LET c == SkipWs(d, k.next)
        IN  IF At(d, c) # ":" THEN NoParse
            ELSE
            LET v == ParseValue(kind, k.val, d, SkipWs(d, c + 1))
            IN  IF ~v.ok THEN NoParse
                ELSE
                LET duplicate == \/ k.val = <<"name">> /\ Len(got.name) > 0
                                 \/ k.val = SecondKey(kind) /\ Len(got.second) > 0
                    got2 == IF k.val = <<"name">> THEN [got EXCEPT !.name = <<v.val>>]
                            ELSE IF k.val = SecondKey(kind)
                                 THEN [got EXCEPT !.second = <<v.val>>]
                            ELSE got
                    e == SkipWs(d, v.next)
                IN  IF duplicate THEN NoParse
                    ELSE IF At(d, e) = "," THEN ScanFields(kind, d, e + 1, got2)
                    ELSE IF At(d, e) = "}"
                         THEN IF Len(got2.name) > 0 /\ Len(got2.second) > 0
                              THEN Parsed(Record(kind, got2.name[1], got2.second[1]), e + 1)
                              ELSE NoParse                  \* missing field
                    ELSE NoParse

ParseRecord(kind, d, i) ==
    IF At(d, i) # "{" THEN NoParse
    ELSE LET j == SkipWs(d, i + 1)
         IN  IF At(d, j) = "}" THEN NoParse                 \* missing field
             ELSE ScanFields(kind, d, j, [name |-> <<>>, second |-> <<>>])

RECURSIVE ScanRecords(_, _, _, _)
ScanRecords(kind, d, i, acc) ==
    LET r == ParseRecord(kind, d, SkipWs(d, i))
    IN  IF ~r.ok THEN NoParse
        ELSE LET j == SkipWs(d, r.next)
             IN  IF At(d, j) = "," THEN ScanRecords(kind, d, j + 1, Append(acc, r.val))
                 ELSE IF At(d, j) = "]" THEN Parsed(Append(acc, r.val), j + 1)
                 ELSE NoParse

\* serde_json::from_str::<Vec<_>>: the whole input is one array of records
from_str(kind, d) ==
    LET i == SkipWs(d, 1)
        r == IF At(d, i) # "[" THEN NoParse
             ELSE LET j == SkipWs(d, i + 1)
                  IN  IF At(d, j) = "]" THEN Parsed(<<>>, j + 1)
                      ELSE ScanRecords(kind, d, j, <<>>)
    IN  IF r.ok /\ SkipWs(d, r.next) = Len(d) + 1 THEN r ELSE NoParse

\* Result::unwrap_or_default
unwrap_or_default(r) == IF r.ok THEN r.val ELSE <<>>

----------------------------------------------------------------------------
(* filetypes.rs and presets.rs: the two stores, each a JSON list in a file *)
(* of the working directory.                                               *)

FileOf(kind) == IF kind = "filetypes" THEN FILETYPES_FILE ELSE PRESET_FILE

\* the list get_filetypes builds when filetypes.json does not exist
DefaultFiletypes ==
    << Record("filetypes", <<"Rust">>, << <<"rs">> >>),
       Record("filetypes", <<"JSON">>, << <<"json">> >>),
       Record("filetypes", <<"Lua">>, << <<"lua">> >>) >>

\* the list get_presets builds when presets.json does not exist; the long
\* texts are cut to their first and last sentences, line breaks and quotes kept
DefaultPresets ==
    << Record("presets", <<"Create Function Documentation">>,
              << "for each function, create very detailed documentation for that function",
                 "\n", "\n",
                 "start with the main function", "\n", "\n",
                 "use ", "\"", "///", "\"", " for the function blocks" >>),
       Record("presets", <<"Create Readme">>,
              << "I want you to update the readme.md file.", "\n",
                 "any sort of flowcharts are welcome", "\n" >>),
       Record("presets", <<"Button 3">>, <<"tbd">>),
       Record("presets", <<"Button 4">>, <<"tbd">>),
       Record("presets", <<"Button 5">>, <<"tbd">>) >>

Default(kind) == IF kind = "filetypes" THEN DefaultFiletypes ELSE DefaultPresets

\* fs::read_to_string(file).unwrap_or_default(): the empty string when the
\* file cannot be read as UTF-8
read_to_string_or_default(f) == IF is_utf8(f.data) THEN f.data ELSE <<>>

\* a variant of fs_write that opens the file without truncating it
fs_write_Appends(f, data) ==
    IF f.writable
    THEN [exists |-> TRUE, data |-> f.data \o data, writable |-> TRUE, shape |-> "canonical"]
    ELSE f

\* `let _ = fs::write(file, data)`: the file is replaced by data, or, when it
\* cannot be written, left as it is; the error is dropped
fs_write(f, data) ==
    IF f.writable
    THEN [exists |-> TRUE, data |-> data, writable |-> TRUE, shape |-> "canonical"]
    ELSE f

\* save_filetypes / save_presets: the files after the call
Saved(kind, list) ==
    [backing EXCEPT ![FileOf(kind)] = fs_write(@, to_string_pretty(kind, list))]

\* get_filetypes / get_presets: the list returned
Loaded(kind) ==
    IF backing[FileOf(kind)].exists
    THEN unwrap_or_default(from_str(kind, read_to_string_or_default(backing[FileOf(kind)])))
    ELSE Default(kind)

\* a variant of AfterGet that returns the default list without storing it
AfterGet_StoresNothing(kind) ==
    backing

\* get_filetypes / get_presets: the files after the call
AfterGet(kind) ==
    IF backing[FileOf(kind)].exists THEN backing ELSE Saved(kind, Default(kind))

\* a file edited by hand: compact, fields in another order, a field the struct
\* does not have, escape sequences the serializer does not write
LooseText(kind) ==
    IF kind = "filetypes"
    THEN <<"[", "{">> \o <<"\"", "extensions", "\"", ":", "[", "\"", "rs", "\"", ",",
                           "\"", "toml", "\"", "]", ",">>
                      \o <<"\"", "note", "\"", ":", "\"", "mine", "\"", ",">>
                      \o <<"\"", "name", "\"", ":", "\"", "Rust", "\"">>
         \o <<"}", "]", "\n">>
    ELSE <<"[", "{">> \o <<"\"", "text", "\"", ":", " ",
                           "\"", "see docs", "\\", "/", "api", "\\", "n", "say ", "\\", "\"",
                           "hi", "\\", "\"", "\"", ",">>
                      \o <<"\"", "name", "\"", ":", "\"", "Mine", "\"">>
         \o <<"}", "\t", "]">>

\* the lists LooseText stands for
LooseList(kind) ==
    IF kind = "filetypes"
    THEN << Record("filetypes", <<"Rust">>, << <<"rs">>, <<"toml">> >>) >>
    ELSE << Record("presets", <<"Mine">>,
                   <<"see docs", "/", "api", "\n", "say ", "\"", "hi", "\"">>) >>

\* the backing files a run can find, each with what it is
BackingFiles(kind) ==
    { [exists |-> c.shape # "missing", data |-> c.data, writable |-> w, shape |-> c.shape] :
        w \in BOOLEAN,
        c \in { [shape |-> "missing", data |-> <<>>],
                [shape |-> "canonical", data |-> to_string_pretty(kind, Default(kind))],
                [shape |-> "canonical", data |-> to_string_pretty(kind, <<>>)],
                [shape |-> "loose", data |-> LooseText(kind)],
                [shape |-> "invalid json", data |-> <<>>],
                [shape |-> "invalid json", data |-> <<"[", "{", "\"", "name", "\"", ":">>],
                [shape |-> "wrong shape", data |-> <<"{", "\"", "name", "\"", ":",
                                                     "\"", "Rust", "\"", "}">>],
                [shape |-> "wrong shape", data |-> <<"[", "{", "\"", "name", "\"", ":",
                                                     "\"", "Rust", "\"", "}", "]">>],
                [shape |-> "not utf-8", data |-> <<"[", BAD, "]">>] } }

\* the lists the program saves: the list it loaded last, or one edited in
\* the meantime
SaveChoices(kind) ==
    (IF Len(history) > 0 /\ history[Len(history)].op = "get"
     THEN {history[Len(history)].list} ELSE {})
    \cup {<<>>, LooseList(kind)}

InitConfig ==
    /\ present = {}
    /\ root_dir = << <<"p", "r", "o", "j">> >>
    /\ valid_exts = << <<"r", "s">>, <<"m", "d">> >>
    /\ recursive = FALSE
    /\ ignored_folders = <<>>
    /\ platform \in {"windows", "unix"}
    /\ previous = [exists |-> FALSE, lines |-> <<>>]
    /\ artifact = previous
    /\ stderr = <<>>
    /\ stack = <<>>
    /\ cur = <<>>
    /\ pc = "config"
    /\ result = <<"none">>
    /\ unlistable = {}
    /\ listed = {}
    /\ additional_commands = <<>>
    /\ appender = "file_ops"
    /\ appends = 0
    /\ append_result = <<"none">>
    /\ config \in {"filetypes", "presets"}
    /\ \E f \in BackingFiles(config) :
            backing = [n \in {FILETYPES_FILE, PRESET_FILE} |->
                            IF n = FileOf(config) THEN f ELSE NoFile]
    /\ history = <<>>
    /\ backing0 = backing
    /\ path_arg = "none"
    /\ user = NoUser
    /\ selector = "gui"
    /\ exit_status = "running"
    /\ invoked = FALSE
    /\ clipboard = [set |-> FALSE, lines |-> <<>>]
    /\ copy_result = <<"none">>
    /\ NoWindow

\* a call of get_filetypes or get_presets
Get(kind) ==
    /\ pc = "config"
    /\ config = kind
    /\ Len(history) < MaxConfigOps
    /\ history' = Append(history, [op |-> "get", list |-> Loaded(kind),
                                   found |-> backing[FileOf(kind)].shape])
    /\ backing' = AfterGet(kind)
    /\ UNCHANGED <<inputs, walk, artifact, pc, appendVars, config, mainVars, guiVars>>

\* a call of save_filetypes or save_presets
Save(kind) ==
    /\ pc = "config"
    /\ config = kind
    /\ Len(history) < MaxConfigOps
    /\ \E list \in SaveChoices(kind) :
            /\ history' = Append(history, [op |-> "save", list |-> list,
                                           found |-> backing[FileOf(kind)].shape])
            /\ backing' = Saved(kind, list)
    /\ UNCHANGED <<inputs, walk, artifact, pc, appendVars, config, mainVars, guiVars>>

get_filetypes == Get("filetypes")

save_filetypes == Save("filetypes")

get_presets == Get("presets")

save_presets == Save("presets")

NextConfig ==
    \/ get_filetypes
    \/ save_filetypes
    \/ get_presets
    \/ save_presets

ConfigSpec == InitConfig /\ [][NextConfig]_vars

----------------------------------------------------------------------------
(* main.rs: main, from the command line or through the dialogs.            *)

\* the extensions main passes on the command-line path
CliExts ==
    << <<"i", "n", "i">>, <<"t", "x", "t">>, <<"r", "s">>, <<"c", "s">>,
       <<"j", "s", "o", "n">>, <<"x", "m", "l">>, <<"a", "h", "k">>,
       <<"c">>, <<"c", "p", "p">>, <<"h">> >>

\* the map modes of main
modes ==
    [mode \in {"AHK", "Rust", "JSON", "XML", "C/CPP"} |->
        CASE mode = "AHK" -> << <<"a", "h", "k">> >>
          [] mode = "Rust" -> << <<"r", "s">> >>
          [] mode = "JSON" -> << <<"j", "s", "o", "n">> >>
          [] mode = "XML" -> << <<"x", "m", "l">> >>
          [] mode = "C/CPP" -> << <<"c">>, <<"c", "p", "p">>, <<"h">> >>]

\* std::process::exit(code)
exit(code) ==
    /\ pc' = "exited"
    /\ exit_status' = code

\* what the user does in the dialogs: the folder picked ("none" when the
\* dialog is dismissed, "file" when the path is no directory), the mode
\* clicked ("none" when the window is closed without one), the clipboard
\* check box, the text typed, and whether presets are saved in the manager
Users ==
    {u \in [dir : {"none", "dir", "file"},
            mode : {"none", "Rust"},
            clipboard : BOOLEAN,
            text : {<<>>, <<"T", "O", "D", "O">>},
            saves_presets : BOOLEAN] :
        \* what is never asked for is left at its default
        /\ u.dir # "dir" => u = [NoUser EXCEPT !.dir = u.dir]
        /\ u.mode = "none" => ~u.clipboard /\ u.text = <<>>}

InitMain ==
    /\ path_arg \in {"none", "missing", "dir", "file"}
    /\ user \in (IF path_arg = "none" THEN Users ELSE {NoUser})
    /\ selector \in (IF path_arg = "none" /\ user.dir = "dir" THEN {"main", "gui"} ELSE {"main"})
    /\ present \in (IF path_arg = "dir" \/ (path_arg = "none" /\ user.dir = "dir")
                    THEN TreesUpTo(MaxMainEntries) ELSE {{}})
    /\ root_dir = << <<"p", "r", "o", "j">> >>
    /\ valid_exts = <<>>
    /\ recursive \in BOOLEAN
    /\ ignored_folders = <<>>
    /\ platform = "windows"
    /\ previous \in { [exists |-> FALSE, lines |-> <<>>],
                      [exists |-> TRUE, lines |-> OldArtifact] }
    /\ artifact = previous
    /\ stderr = <<>>
    /\ stack = <<>>
    /\ cur = root_dir
    /\ pc = "main"
    /\ result = <<"none">>
    /\ unlistable = (IF path_arg \in {"missing", "file"} THEN {root_dir} ELSE {})
    /\ listed = {}
    /\ additional_commands = <<>>
    /\ appender \in {"file_ops", "main"}
    /\ appends = 0
    /\ append_result = <<"none">>
    /\ config = "presets"
    /\ \E f \in {g \in BackingFiles("presets") : g.writable /\ g.shape \in {"missing", "loose"}} :
            backing = [n \in {FILETYPES_FILE, PRESET_FILE} |->
                            IF n = PRESET_FILE THEN f ELSE NoFile]
    /\ backing0 = backing
    /\ history = <<>>
    /\ exit_status = "running"
    /\ invoked = FALSE
    /\ clipboard = [set |-> FALSE, lines |-> <<>>]
    /\ copy_result = <<"none">>
    /\ NoWindow

\* a variant of MainStart that does not look whether the folder exists
MainStart_SkipsExistsCheck ==
    /\ pc = "main"
    /\ IF path_arg # "none"
       THEN /\ pc' = "create"
            /\ valid_exts' = CliExts
            /\ invoked' = TRUE
            /\ UNCHANGED exit_status
       ELSE /\ pc' = "pick_folder"
            /\ UNCHANGED <<valid_exts, invoked, exit_status>>
    /\ UNCHANGED <<present, root_dir, recursive, ignored_folders, platform, previous,
                   unlistable, walk, artifact, appendVars, storeVars, backing0,
                   path_arg, user, selector, clipboard, copy_result,
                   guiVars>>

\* main, up to the call of write_folder_tags on the command-line path or to
\* the folder dialog
MainStart ==
    /\ pc = "main"
    /\ IF path_arg # "none"
       THEN IF path_arg = "missing"                     \* !folder.exists()
            THEN /\ exit("1")
                 /\ UNCHANGED <<valid_exts, invoked>>
            ELSE /\ pc' = "create"                      \* write_folder_tags(&folder, ..)
                 /\ valid_exts' = CliExts
                 /\ invoked' = TRUE
                 /\ UNCHANGED exit_status
       ELSE /\ pc' = "pick_folder"
            /\ UNCHANGED <<valid_exts, invoked, exit_status>>
    /\ UNCHANGED <<present, root_dir, recursive, ignored_folders, platform, previous,
                   unlistable, walk, artifact, appendVars, storeVars, backing0,
                   path_arg, user, selector, clipboard, copy_result,
                   guiVars>>

\* FileDialog::pick_folder and the check dir.is_dir()
PickFolder ==
    /\ pc = "pick_folder"
    /\ CASE user.dir = "none" -> exit("0")
         [] user.dir = "file" -> exit("1")
         [] OTHER -> pc' = "gui" /\ UNCHANGED exit_status
    /\ UNCHANGED <<inputs, walk, artifact, appendVars, storeVars, backing0,
                   path_arg, user, selector, invoked, clipboard, copy_result,
                   guiVars>>

\* presets.json after the selection window: ModeSelector::new of gui.rs calls
\* get_presets, and the preset manager calls save_presets on "Save Changes";
\* the ModeSelector of main.rs has no presets
AfterWindow ==
    IF selector = "gui"
    THEN IF user.saves_presets
         THEN [AfterGet("presets") EXCEPT ![PRESET_FILE] =
                    fs_write(@, to_string_pretty("presets", LooseList("presets")))]
         ELSE AfterGet("presets")
    ELSE backing

\* mode_selection_gui, until the window is closed, and the check of the mode
ModeSelection ==
    /\ pc = "gui"
    /\ backing' = AfterWindow
    /\ history' = IF selector = "gui"
                  THEN Append(history, [op |-> "get", list |-> Loaded("presets"),
                                        found |-> backing[PRESET_FILE].shape])
                  ELSE history
    /\ IF user.mode = "none"
       THEN /\ exit("0")
            /\ UNCHANGED <<valid_exts, invoked, additional_commands>>
       ELSE /\ pc' = "create"                           \* write_folder_tags(&dir, valid_exts)
            /\ valid_exts' = modes[user.mode]
            /\ additional_commands' = user.text
            /\ invoked' = TRUE
            /\ UNCHANGED exit_status
    /\ UNCHANGED <<present, root_dir, recursive, ignored_folders, platform, previous,
                   unlistable, walk, artifact, appender, appends, append_result,
                   config, backing0, path_arg, user, selector, clipboard, copy_result,
                   guiVars>>

\* a variant of WalkReturns that goes on to the append whatever was returned
WalkReturns_IgnoresError ==
    /\ pc = "done"
    /\ pc' = "main_append"
    /\ UNCHANGED <<inputs, walk, artifact, appendVars, storeVars, mainVars, guiVars>>

\* the return of write_folder_tags into main
WalkReturns ==
    /\ pc = "done"
    /\ IF result[1] = "Err"
       THEN exit("1")
       ELSE pc' = "main_append" /\ UNCHANGED exit_status
    /\ UNCHANGED <<inputs, walk, artifact, appendVars, storeVars, backing0,
                   path_arg, user, selector, invoked, clipboard, copy_result,
                   guiVars>>

\* append_additional_commands("tags_output.txt", ..): its error is printed only
MainAppend ==
    /\ pc = "main_append"
    /\ append_additional_commands(appender, additional_commands)
    /\ IF path_arg = "none" /\ user.clipboard
       THEN pc' = "clipboard" /\ UNCHANGED exit_status
       ELSE exit("0")
    /\ UNCHANGED <<inputs, walk, storeVars, backing0,
                   path_arg, user, selector, invoked, clipboard, copy_result,
                   guiVars>>

\* copy_to_clipboard(file_path): read_to_string(file_path)?, the clipboard
\* opened (Clipboard::new_attempts(10)?, Clipboard::new()?), the text written
\* (write_clipboard(..)?, set_text(..)?), Ok(())
copy_to_clipboard ==
    \/ /\ artifact.exists
       /\ clipboard' = [set |-> TRUE, lines |-> artifact.lines]
       /\ copy_result' = <<"Ok">>
    \/ /\ UNCHANGED clipboard
       /\ \E call \in {"read_to_string", "open", "write"} :
             copy_result' = <<"Err", call>>

\* a variant of MainClipboard in which an error of copy_to_clipboard ends the
\* run with status 1
MainClipboard_FailureIsFatal ==
    /\ pc = "clipboard"
    /\ copy_to_clipboard
    /\ IF copy_result'[1] = "Err" THEN exit("1") ELSE exit("0")
    /\ UNCHANGED <<inputs, walk, artifact, appendVars, storeVars, backing0,
                   path_arg, user, selector, invoked, guiVars>>

\* if enable_clipboard_copy: copy_to_clipboard("tags_output.txt"), its error is
\* printed only; std::process::exit(0)
MainClipboard ==
    /\ pc = "clipboard"
    /\ copy_to_clipboard
    /\ exit("0")
    /\ UNCHANGED <<inputs, walk, artifact, appendVars, storeVars, backing0,
                   path_arg, user, selector, invoked, guiVars>>

NextMain ==
    \/ MainStart
    \/ PickFolder
    \/ ModeSelection
    \/ CreateOutput
    \/ ReadDir
    \/ LoopFlat
    \/ LoopRecursive
    \/ EndLoop
    \/ WriteFooter
    \/ WalkReturns
    \/ MainAppend
    \/ MainClipboard

MainSpec == InitMain /\ [][NextMain]_vars

----------------------------------------------------------------------------
(* gui.rs: ModeSelector, its window and the preset manager.  One action is  *)
(* one frame of update in which one widget is clicked.  The check boxes and *)
(* the text box of the ignored folders only set the caller's variables.     *)

\* what the window leaves alone
outside == <<inputs, walk, artifact, appendVars, mainVars>>

\* the names and texts typed into the fields of the preset manager
TypedNames == { <<"Quick">> }

TypedTexts == { <<"be brief">> }

\* the texts typed into the box "Additional Commands"
TypedCommands == { <<"T", "O", "D", "O">> }

NoDirectoryWarning == "Please select a directory before proceeding!"

NoModeWarning == "Please select a file type before proceeding!"

\* Vec::remove
Remove(seq, i) == SubSeq(seq, 1, i - 1) \o SubSeq(seq, i + 1, Len(seq))

RECURSIVE TextsOf(_, _)
\* for preset in &self.presets: the text of each whose name is in the set
TextsOf(list, names) ==
    IF list = <<>> THEN <<>>
    ELSE (IF list[1].name \in names THEN <<list[1].text>> ELSE <<>>)
         \o TextsOf(Tail(list), names)

\* a presets.json the window can find: missing, or edited by hand
InitGui ==
    /\ present = {}
    /\ root_dir = << <<"p", "r", "o", "j">> >>
    /\ valid_exts = <<>>
    /\ recursive = FALSE
    /\ ignored_folders = <<>>
    /\ platform = "windows"
    /\ previous = [exists |-> FALSE, lines |-> <<>>]
    /\ artifact = previous
    /\ stderr = <<>>
    /\ stack = <<>>
    /\ cur = root_dir
    /\ pc = "gui_new"
    /\ result = <<"none">>
    /\ unlistable = {}
    /\ listed = {}
    /\ additional_commands = <<>>
    /\ appender = "file_ops"
    /\ appends = 0
    /\ append_result = <<"none">>
    /\ config = "presets"
    /\ \E f \in {g \in BackingFiles("presets") : g.shape \in {"missing", "loose"}} :
            backing = [n \in {FILETYPES_FILE, PRESET_FILE} |->
                            IF n = PRESET_FILE THEN f ELSE NoFile]
    /\ history = <<>>
    /\ backing0 = backing
    /\ path_arg = "none"
    /\ user = NoUser
    /\ selector = "gui"
    /\ exit_status = "running"
    /\ invoked = FALSE
    /\ clipboard = [set |-> FALSE, lines |-> <<>>]
    /\ copy_result = <<"none">>
    /\ NoWindow

\* ModeSelector::new, and the window shown by eframe
ModeSelectorNew ==
    /\ pc = "gui_new"
    /\ presets' = Loaded("presets")                     \* presets: get_presets()
    /\ backing' = AfterGet("presets")
    /\ history' = Append(history, [op |-> "get", list |-> presets',
                                   found |-> backing[PRESET_FILE].shape])
    /\ ids' = [i \in 1..Len(presets') |-> i]
    /\ selected_presets' = {}
    /\ warning_message' = ""
    /\ open_manage_presets' \in BOOLEAN                 \* the argument open_manage_presets
    /\ open_preset_index' = <<>>
    /\ window' = "open"
    /\ pc' = "window"
    /\ UNCHANGED <<outside, config, preset_texts, selected_dir, selected_mode,
                   open_headers, designated, clicked, clicks>>

\* a frame of update in which the widget is clicked
Click(widget) ==
    /\ pc = "window"
    /\ window = "open"
    /\ clicks < MaxClicks
    /\ clicked' = widget
    /\ clicks' = clicks + 1

\* "Select Directory": the folder dialog, dismissed or not
SelectDirectory ==
    /\ Click("Select Directory")
    /\ \/ /\ selected_dir' = "dir"
          /\ warning_message' = ""
       \/ UNCHANGED <<selected_dir, warning_message>>   \* pick_folder() is None
    /\ UNCHANGED <<outside, storeVars, pc, preset_texts, selected_mode, presets,
                   selected_presets, open_manage_presets, open_preset_index, window,
                   open_headers, ids, designated>>

\* the button of a mode
ClickMode ==
    /\ Click("mode")
    /\ \E mode \in {"Rust"} : selected_mode' = mode
    /\ warning_message' = ""
    /\ UNCHANGED <<outside, storeVars, pc, preset_texts, selected_dir, presets,
                   selected_presets, open_manage_presets, open_preset_index, window,
                   open_headers, ids, designated>>

\* the text box "Additional Commands"
EditCommands ==
    /\ Click("Additional Commands")
    /\ additional_commands' \in TypedCommands
    /\ UNCHANGED <<inputs, walk, artifact, appender, appends, append_result, mainVars,
                   storeVars, pc, preset_texts, selected_dir, selected_mode, presets,
                   selected_presets, warning_message, open_manage_presets,
                   open_preset_index, window, open_headers, ids, designated>>

\* a variant of SelectPreset that adds the name to the set without clearing it
SelectPreset_KeepsOthers ==
    /\ Click("Preset Command")
    /\ \E i \in 1..Len(presets) :
            selected_presets' = selected_presets \cup {presets[i].name}
    /\ UNCHANGED <<outside, storeVars, pc, preset_texts, selected_dir, selected_mode,
                   presets, warning_message, open_manage_presets, open_preset_index,
                   window, open_headers, ids, designated>>

\* an entry of the combo box "Preset Command"
SelectPreset ==
    /\ Click("Preset Command")
    /\ \E i \in 1..Len(presets) :
            selected_presets' = {presets[i].name}       \* clear(), insert(name)
    /\ UNCHANGED <<outside, storeVars, pc, preset_texts, selected_dir, selected_mode,
                   presets, warning_message, open_manage_presets, open_preset_index,
                   window, open_headers, ids, designated>>

\* "Manage Presets"
ManagePresets ==
    /\ Click("Manage Presets")
    /\ open_manage_presets' = TRUE
    /\ UNCHANGED <<outside, storeVars, pc, preset_texts, selected_dir, selected_mode,
                   presets, selected_presets, warning_message, open_preset_index,
                   window, open_headers, ids, designated>>

\* the close button of the window "Preset Manager": .open(&mut self.open_manage_presets)
CloseManager ==
    /\ open_manage_presets
    /\ Click("close Preset Manager")
    /\ open_manage_presets' = FALSE
    /\ UNCHANGED <<outside, storeVars, pc, preset_texts, selected_dir, selected_mode,
                   presets, selected_presets, warning_message, open_preset_index,
                   window, open_headers, ids, designated>>

\* a variant of ClickOK that closes the window whatever is selected
ClickOK_ClosesAnyway ==
    /\ Click("OK")
    /\ preset_texts' = preset_texts \o TextsOf(presets, selected_presets)
    /\ window' = "closed"
    /\ pc' = "window_closed"
    /\ UNCHANGED warning_message
    /\ UNCHANGED <<outside, storeVars, selected_dir, selected_mode, presets,
                   selected_presets, open_manage_presets, open_preset_index,
                   open_headers, ids, designated>>

\* "OK"
ClickOK ==
    /\ Click("OK")
    /\ IF selected_dir = "none"
       THEN /\ warning_message' = NoDirectoryWarning
            /\ UNCHANGED <<preset_texts, window, pc>>
       ELSE IF selected_mode = "none"
       THEN /\ warning_message' = NoModeWarning
            /\ UNCHANGED <<preset_texts, window, pc>>
       ELSE /\ preset_texts' = preset_texts \o TextsOf(presets, selected_presets)
            /\ window' = "closed"                       \* ViewportCommand::Close
            /\ pc' = "window_closed"
            /\ UNCHANGED warning_message
    /\ UNCHANGED <<outside, storeVars, selected_dir, selected_mode, presets,
                   selected_presets, open_manage_presets, open_preset_index,
                   open_headers, ids, designated>>

\* the close button of the window
CloseWindow ==
    /\ Click("close")
    /\ window' = "closed"
    /\ pc' = "window_closed"
    /\ UNCHANGED <<outside, storeVars, preset_texts, selected_dir, selected_mode, presets,
                   selected_presets, warning_message, open_manage_presets,
                   open_preset_index, open_headers, ids, designated>>

\* the header of preset i in the preset manager.  egui keeps, under the id
\* "preset_{i}", whether the header is expanded, and toggles it at the click;
\* default_open(is_open) counts only when the id is first shown, and then
\* open_preset_index is not yet Some(i)
ClickHeader ==
    /\ open_manage_presets
    /\ Click("header")
    /\ \E i \in 1..Len(presets) :
            /\ open_headers' = IF i \in open_headers THEN open_headers \ {i}
                               ELSE open_headers \cup {i}
            /\ IF open_preset_index = <<i>>             \* is_open
               THEN open_preset_index' = <<>> /\ designated' = 0
               ELSE open_preset_index' = <<i>> /\ designated' = ids[i]
    /\ UNCHANGED <<outside, storeVars, pc, preset_texts, selected_dir, selected_mode,
                   presets, selected_presets, warning_message, open_manage_presets,
                   window, ids>>

\* "Delete" in the expanded panel of preset i
DeletePreset ==
    /\ open_manage_presets
    /\ Click("Delete")
    /\ \E i \in open_headers \cap (1..Len(presets)) :
            /\ presets' = Remove(presets, i)            \* self.presets.remove(i)
            /\ ids' = Remove(ids, i)
            /\ IF open_preset_index = <<i>>
               THEN open_preset_index' = <<>> /\ designated' = 0
               ELSE UNCHANGED <<open_preset_index, designated>>
    /\ UNCHANGED <<outside, storeVars, pc, preset_texts, selected_dir, selected_mode,
                   selected_presets, warning_message, open_manage_presets, window,
                   open_headers>>

\* a variant of EditName that writes presets.json at every change
EditName_SavesAtOnce ==
    /\ open_manage_presets
    /\ Click("Name")
    /\ \E i \in open_headers \cap (1..Len(presets)) : \E name \in TypedNames :
            /\ presets' = [presets EXCEPT ![i].name = name]
            /\ backing' = Saved("presets", [presets EXCEPT ![i].name = name])
    /\ UNCHANGED <<outside, config, history, pc, preset_texts, selected_dir, selected_mode,
                   selected_presets, warning_message, open_manage_presets,
                   open_preset_index, window, open_headers, ids, designated>>

\* the field "Name:" in the expanded panel of preset i
EditName ==
    /\ open_manage_presets
    /\ Click("Name")
    /\ \E i \in open_headers \cap (1..Len(presets)) : \E name \in TypedNames :
            presets' = [presets EXCEPT ![i].name = name]
    /\ UNCHANGED <<outside, storeVars, pc, preset_texts, selected_dir, selected_mode,
                   selected_presets, warning_message, open_manage_presets,
                   open_preset_index, window, open_headers, ids, designated>>

\* the field "Text:" in the expanded panel of preset i
EditText ==
    /\ open_manage_presets
    /\ Click("Text")
    /\ \E i \in open_headers \cap (1..Len(presets)) : \E text \in TypedTexts :
            presets' = [presets EXCEPT ![i].text = text]
    /\ UNCHANGED <<outside, storeVars, pc, preset_texts, selected_dir, selected_mode,
                   selected_presets, warning_message, open_manage_presets,
                   open_preset_index, window, open_headers, ids, designated>>

\* "Add New Preset"
AddNewPreset ==
    /\ open_manage_presets
    /\ Click("Add New Preset")
    /\ presets' = Append(presets, Record("presets", <<"New Preset">>, <<>>))
    /\ ids' = Append(ids, 0 - clicks')                  \* a preset that was not there before
    /\ UNCHANGED <<outside, storeVars, pc, preset_texts, selected_dir, selected_mode,
                   selected_presets, warning_message, open_manage_presets,
                   open_preset_index, window, open_headers, designated>>

\* "Save Changes": save_presets(&self.presets)
SaveChanges ==
    /\ open_manage_presets
    /\ Click("Save Changes")
    /\ backing' = Saved("presets", presets)
    /\ history' = Append(history, [op |-> "save", list |-> presets,
                                   found |-> backing[PRESET_FILE].shape])
    /\ UNCHANGED <<outside, config, pc, preset_texts, selected_dir, selected_mode, presets,
                   selected_presets, warning_message, open_manage_presets,
                   open_preset_index, window, open_headers, ids, designated>>

NextGui ==
    \/ ModeSelectorNew
    \/ SelectDirectory
    \/ ClickMode
    \/ EditCommands
    \/ SelectPreset
    \/ ManagePresets
    \/ CloseManager
    \/ ClickOK
    \/ CloseWindow
    \/ ClickHeader
    \/ DeletePreset
    \/ EditName
    \/ EditText
    \/ AddNewPreset
    \/ SaveChanges

GuiSpec == InitGui /\ [][NextGui]_vars

----------------------------------------------------------------------------
(* The run that follows the window of gui.rs: the OK of gui.rs, then main   *)
(* as main.rs has it after its window has closed.                           *)

\* a list in which two presets have the same name
TwinPresets ==
    << Record("presets", <<"Quick">>, <<"be brief">>),
       Record("presets", <<"Quick">>, <<"tbd">>) >>

\* the window as the user has left it before the click on OK
InitSession ==
    /\ present \in TreesUpTo(MaxMainEntries)
    /\ root_dir = << <<"p", "r", "o", "j">> >>
    /\ valid_exts = <<>>
    /\ recursive \in BOOLEAN
    /\ ignored_folders = <<>>
    /\ platform = "windows"
    /\ previous = [exists |-> TRUE, lines |-> OldArtifact]
    /\ artifact = previous
    /\ stderr = <<>>
    /\ stack = <<>>
    /\ cur = root_dir
    /\ pc = "window"
    /\ result = <<"none">>
    /\ unlistable = {}
    /\ listed = {}
    /\ additional_commands \in {<<>>} \cup TypedCommands
    /\ appender \in {"file_ops", "main"}
    /\ appends = 0
    /\ append_result = <<"none">>
    /\ config = "presets"
    /\ backing = [n \in {FILETYPES_FILE, PRESET_FILE} |-> NoFile]
    /\ history = <<>>
    /\ backing0 = backing
    /\ path_arg = "none"
    /\ user = NoUser
    /\ selector = "gui"
    /\ exit_status = "running"
    /\ invoked = FALSE
    /\ clipboard = [set |-> FALSE, lines |-> <<>>]
    /\ copy_result = <<"none">>
    /\ preset_texts = <<>>
    /\ selected_dir = "dir"
    /\ selected_mode \in {"none", "Rust"}
    /\ presets \in {DefaultPresets, LooseList("presets"), TwinPresets}
    /\ selected_presets \in {{}} \cup {{presets[i].name} : i \in 1..Len(presets)}
    /\ warning_message = ""
    /\ open_manage_presets = FALSE
    /\ open_preset_index = <<>>
    /\ window = "open"
    /\ open_headers = {}
    /\ ids = [i \in 1..Len(presets) |-> i]
    /\ designated = 0
    /\ clicked = "none"
    /\ clicks = 0

\* main after the window has closed: the mode is looked up, and
\* write_folder_tags(&dir, valid_exts) called
SessionEnds ==
    /\ pc = "window_closed"
    /\ IF selected_mode = "none"
       THEN /\ exit("0")
            /\ UNCHANGED <<valid_exts, invoked>>
       ELSE /\ pc' = "create"
            /\ valid_exts' = modes[selected_mode]
            /\ invoked' = TRUE
            /\ UNCHANGED exit_status
    /\ UNCHANGED <<present, root_dir, recursive, ignored_folders, platform, previous,
                   unlistable, walk, artifact, appendVars, storeVars, backing0,
                   path_arg, user, selector, clipboard, copy_result, guiVars>>

NextSession ==
    \/ ClickOK
    \/ SessionEnds
    \/ CreateOutput
    \/ ReadDir
    \/ LoopFlat
    \/ LoopRecursive
    \/ EndLoop
    \/ WriteFooter
    \/ WalkReturns
    \/ MainAppend

SessionSpec == InitSession /\ [][NextSession]_vars

----------------------------------------------------------------------------
(* Vocabulary of the properties.  It is stated on the directory tree and   *)
(* on the lines of the artifact, not on the operators of the walk.         *)

Lines == artifact.lines

Done == pc = "done"

Succeeded == pc = "done" /\ result = <<"Ok">>

Name(n) == Universe[n].name

Files == {n \in present : Universe[n].kind = "file"}

Folders == {n \in present : Universe[n].kind = "dir"}

RECURSIVE Under(_, _)
\* entry n lies somewhere under folder d
Under(n, d) ==
    /\ Universe[n].parent # 0
    /\ Universe[n].parent = d \/ Under(Universe[n].parent, d)

RECURSIVE Segments(_)
\* the names from the root down to entry n
Segments(n) ==
    IF Universe[n].parent = 0 THEN <<Name(n)>>
    ELSE Append(Segments(Universe[n].parent), Name(n))

Separators == {"/", "\\"}

\* the path of n relative to the root, with one separator throughout
RootRelative(n, sep) == JoinWith(Segments(n), sep)

\* every text that could name n in a tag: any tail of its segments
TagPaths(n) ==
    {JoinWith(SubSeq(Segments(n), k, Len(Segments(n))), sep) :
        k \in 1..Len(Segments(n)), sep \in Separators}

OpenTag(p) == <<"<">> \o p \o <<">">>

CloseTag(p) == <<"</">> \o p \o <<">">>

\* the paths under which n has an opening or a closing tag in the artifact
TagsOf(n) ==
    {p \in TagPaths(n) : \E i \in 1..Len(Lines) : Lines[i] \in {OpenTag(p), CloseTag(p)}}

Tagged(n) == TagsOf(n) # {}

\* a tag pair of n starts at line i: opening tag, content, closing tag, blank line
PairAt(i, n, p) ==
    /\ i + 3 <= Len(Lines)
    /\ Lines[i] = OpenTag(p)
    /\ Lines[i + 1] = Universe[n].content
    /\ Lines[i + 2] = CloseTag(p)
    /\ Lines[i + 3] = <<>>

PairsOf(n) == {i \in 1..Len(Lines) : \E p \in TagPaths(n) : PairAt(i, n, p)}

\* exactly one tag pair, and no other tag line of n
OnePair(n) ==
    /\ Cardinality(PairsOf(n)) = 1
    /\ Cardinality({i \in 1..Len(Lines) :
            \E p \in TagPaths(n) : Lines[i] \in {OpenTag(p), CloseTag(p)}}) = 2

EndsWith(s, t) == Len(t) <= Len(s) /\ SubSeq(s, Len(s) - Len(t) + 1, Len(s)) = t

\* the name is a non-empty stem, a dot and exactly one of the allowed extensions
AllowedExtension(n) ==
    \E i \in 1..Len(valid_exts) :
        /\ EndsWith(Name(n), <<".">> \o valid_exts[i])
        /\ Len(Name(n)) > Len(valid_exts[i]) + 1

Readable(n) == Universe[n].read = "ok"

ValidUnicode(n) == \A k \in 1..Len(Segments(n)) : \A j \in 1..Len(Segments(n)[k]) :
                        Segments(n)[k][j] # BAD

HiddenFolder(d) == d \in Folders /\ Len(Name(d)) > 0 /\ Name(d)[1] = "."

\* the folder's name equals an entry of ignored_folders when letter case is ignored
IgnoredFolder(d) ==
    /\ d \in Folders
    /\ \E i \in 1..Len(ignored_folders) :
            to_lowercase(ignored_folders[i]) = to_lowercase(Name(d))

FooterAtEnd ==
    /\ Len(Lines) >= 4
    /\ SubSeq(Lines, Len(Lines) - 3, Len(Lines)) = Footer

\* the entry of Universe with the given parent and name
Entry(parent, name) ==
    CHOOSE n \in Nodes : Universe[n].parent = parent /\ Universe[n].name = name

A_RS == Entry(0, rs(<<"a">>))
N_MD == Entry(0, <<"n", ".", "m", "d">>)
B_RS_UPPER == Entry(0, <<"b", ".", "R", "S">>)
README == Entry(0, <<"R", "E", "A", "D", "M", "E">>)
ODD_EXT == Entry(0, <<"c", ".", "r", BAD>>)
ODD_NAME_RS == Entry(0, rs(<<BAD>>))
BIN_RS == Entry(0, rs(<<"b", "i", "n">>))
NOT_REGULAR == Entry(0, rs(<<"x">>))
SUB == Entry(0, <<"s", "u", "b">>)
SUB_FILE_RS == Entry(SUB, rs(<<"f", "i", "l", "e">>))
SUB_LOCK_RS == Entry(SUB, rs(<<"l", "o", "c", "k">>))
GIT == Entry(SUB, <<".", "g", "i", "t">>)
GIT_B_RS == Entry(GIT, rs(<<"b">>))
TARGET_UPPER == Entry(0, <<"T", "a", "r", "g", "e", "t">>)
TARGET_LOWER == Entry(TARGET_UPPER, <<"t", "a", "r", "g", "e", "t">>)
DEEP_D_RS == Entry(TARGET_LOWER, rs(<<"d">>))

----------------------------------------------------------------------------
(* C1: in recursive serialization no file anywhere under a folder whose    *)
(* name equals an entry of ignored_folder_names, letter case ignored on    *)
(* both sides, gets a tag in the artifact.                                 *)
C1_IgnoredFolderNeverTagged ==
    recursive =>
        \A d \in present : IgnoredFolder(d) =>
            \A f \in present : Under(f, d) => ~Tagged(f)

(* C2: in recursive serialization with an empty ignored-folder set no file *)
(* under a folder whose name begins with '.' gets a tag, at any depth, and *)
(* a.rs directly under the root gets its tag pair with its exact content.  *)
C2_HiddenFolderNeverTagged ==
    (recursive /\ ignored_folders = <<>>) =>
        /\ \A d \in present : HiddenFolder(d) =>
                \A f \in present : Under(f, d) => ~Tagged(f)
        /\ (Succeeded /\ A_RS \in present) =>
                /\ OnePair(A_RS)
                /\ \E i \in 1..Len(Lines) : PairAt(i, A_RS, Name(A_RS))

\* the scenario of C2: proj/ holds a.rs and sub/.git/b.rs, and the call returned Ok
C2_Witness ==
    /\ Succeeded
    /\ recursive /\ ignored_folders = <<>>
    /\ present = {A_RS, SUB, GIT, GIT_B_RS}
    /\ Tagged(A_RS)

(* C3 as stated: when every entry of the directory is a readable regular   *)
(* file with an allowed extension, a successful non-recursive call leaves  *)
(* exactly one tag pair per file, holding the file's content.              *)
C3_OnePairPerFile ==
    (/\ Succeeded /\ ~recursive
     /\ \A n \in present : /\ n \in Files /\ Universe[n].parent = 0
                           /\ Readable(n) /\ AllowedExtension(n)) =>
        \A n \in present : OnePair(n) /\ \E i \in 1..Len(Lines) : PairAt(i, n, Name(n))

(* C3 amended: after a successful non-recursive call every readable        *)
(* regular file directly under the root whose extension is allowed and     *)
(* whose name is valid Unicode has exactly one tag pair, holding its       *)
(* content; in particular when the directory holds only such files.        *)
C3_OnePairPerUnicodeFile ==
    (Succeeded /\ ~recursive) =>
        \A n \in Files :
            (/\ Universe[n].parent = 0 /\ Readable(n)
             /\ AllowedExtension(n) /\ ValidUnicode(n)) =>
                OnePair(n) /\ \E i \in 1..Len(Lines) : PairAt(i, n, Name(n))

\* a directory of two includable files, both serialized
C3_Witness ==
    /\ Succeeded /\ ~recursive
    /\ present = {A_RS, N_MD}
    /\ Len(Lines) = 12

(* C4: in both modes an entry has a tag only if it is a regular file whose *)
(* extension is, compared exactly, one of the allowed extensions: never a  *)
(* file without extension, with an extension that is not valid Unicode, or *)
(* with an extension that differs in letter case.                          *)
C4_OnlyAllowedExtensionsTagged ==
    \A n \in present : Tagged(n) => (n \in Files /\ AllowedExtension(n))

\* b.RS, README, c.r<BAD> and a non-regular x.rs were all visited and none was written
C4_Witness ==
    /\ Succeeded
    /\ present = {B_RS_UPPER, README, ODD_EXT, NOT_REGULAR}
    /\ stack = <<>>

(* C5: with recursive = false no file inside a subdirectory of the root    *)
(* gets a tag, whatever the subdirectory is called, and no subdirectory is *)
(* ever listed.                                                            *)
C5_FlatModeStaysAtRoot ==
    ~recursive =>
        /\ \A n \in present : Universe[n].parent # 0 => ~Tagged(n)
        /\ Len(stack) <= 1
        /\ \A k \in 1..Len(stack) : stack[k].dir = root_dir

\* the root holds a.rs and sub/file.rs; only a.rs was written
C5_Witness ==
    /\ Succeeded /\ ~recursive
    /\ {A_RS, SUB_FILE_RS} \subseteq present
    /\ Tagged(A_RS)

(* C6: in a recursive walk every tag of a file names the file by its path  *)
(* relative to the root of the call, all intermediate folders included,    *)
(* never by a path relative to the folder being visited.                   *)
C6_TagPathRelativeToRoot ==
    recursive =>
        \A f \in present : \A p \in TagsOf(f) :
            \E sep \in Separators : p = RootRelative(f, sep)

\* a file three levels down was written
C6_Witness ==
    /\ Succeeded /\ recursive
    /\ Cardinality(PairsOf(DEEP_D_RS)) = 1

(* C7: the path in every tag has its segments joined by a backslash, on    *)
(* every platform.                                                         *)
C7_BackslashOnEveryPlatform ==
    \A f \in present : \A p \in TagsOf(f) : p = RootRelative(f, "\\")

(* C8: every successful call leaves the four footer lines at the end of    *)
(* the artifact, once, also when no file was written; then the artifact is *)
(* exactly the footer.                                                     *)
C8_FooterAlwaysWritten ==
    Succeeded =>
        /\ artifact.exists
        /\ FooterAtEnd
        /\ \A i \in 1..(Len(Lines) - 4) : \A k \in 1..4 : Lines[i] # Footer[k]
        /\ (\A n \in present : ~Tagged(n)) => Lines = Footer

\* an empty directory, recursion disabled
C8_Witness ==
    /\ Succeeded /\ ~recursive
    /\ present = {}
    /\ previous.exists

RECURSIVE OnlyBlocks(_)
\* the lines are tag pairs of files of the tree, one after the other
OnlyBlocks(ls) ==
    \/ ls = <<>>
    \/ /\ Len(ls) >= 4
       /\ \E f \in Files : \E p \in TagPaths(f) :
            SubSeq(ls, 1, 4) = <<OpenTag(p), Universe[f].content, CloseTag(p), <<>> >>
       /\ OnlyBlocks(SubSeq(ls, 5, Len(ls)))

(* C9: after a successful call on an artifact that already had content     *)
(* the artifact holds only tag pairs of files of the directory followed by *)
(* the footer: nothing of the earlier content, no earlier                  *)
(* [Additional Commands] section.                                          *)
C9_PreviousContentDiscarded ==
    (Succeeded /\ previous.exists /\ previous.lines # <<>>) =>
        /\ FooterAtEnd
        /\ OnlyBlocks(SubSeq(Lines, 1, Len(Lines) - 4))
        /\ \A i \in 1..Len(Lines) : Lines[i] # <<"[Additional Commands]">>

\* the artifact of an earlier run was replaced by one with a file block
C9_Witness ==
    /\ Succeeded
    /\ previous.lines = OldArtifact
    /\ Tagged(A_RS)
    /\ Len(Lines) = 8

\* the walk reaches n: it lies under no hidden or ignored folder, and
\* directly under the root when recursion is off
Walked(n) ==
    IF recursive
    THEN \A d \in present : Under(n, d) => ~(HiddenFolder(d) \/ IgnoredFolder(d))
    ELSE Universe[n].parent = 0

Includable == {n \in Files : AllowedExtension(n) /\ Walked(n)}

SkippedFolder(d) ==
    \/ HiddenFolder(d)
    \/ \E i \in 1..Len(ignored_folders) : ignored_folders[i] = to_lowercase(Name(d))

\* the directories the walk has to list: the root and, when recursive, every
\* folder that is not skipped and lies under no skipped folder
ToList ==
    {root_dir} \cup
    (IF recursive
     THEN {PathOf(d) : d \in {e \in Folders :
                /\ ~SkippedFolder(e)
                /\ \A a \in Folders : Under(e, a) => ~SkippedFolder(a)}}
     ELSE {})

FooterLines == {Footer[k] : k \in 1..Len(Footer)}

(* C11: when read_dir fails on the root or on a subdirectory the walk has   *)
(* to list, write_folder_tags does not return success; the error of a       *)
(* failed listing ends the call at once, with no footer line written and    *)
(* only whole file blocks before it, and no file under the directory that   *)
(* could not be listed is ever written.                                     *)
C11_ListingFailureIsFatal ==
    /\ Succeeded => unlistable \cap ToList = {}
    /\ result = <<"Err", "read_dir">> =>
            /\ Done
            /\ OnlyBlocks(Lines)
            /\ \A i \in 1..Len(Lines) : Lines[i] \notin FooterLines
    /\ \A d \in Folders : PathOf(d) \in unlistable =>
            \A f \in present : Under(f, d) => ~Tagged(f)

\* sub/ cannot be listed: a.rs was written before the walk reached sub/, and
\* the call failed there
C11_Witness ==
    /\ result = <<"Err", "read_dir">>
    /\ recursive
    /\ present = {A_RS, SUB, SUB_FILE_RS}
    /\ unlistable = {PathOf(SUB)}
    /\ OnePair(A_RS)

Sections(lines) == Cardinality({i \in 1..Len(lines) : lines[i] = SectionHeader})

(* C13: n calls of append_additional_commands with the same text on the    *)
(* same artifact, all returning Ok, leave n more [Additional Commands]     *)
(* sections than the artifact had: one more per call, never a merged one.  *)
C13_OneSectionPerCall ==
    append_result[1] # "Err" =>
        Sections(Lines) = Sections(previous.lines) + appends

\* three calls on an artifact that already had a section
C13_Witness ==
    /\ appends = 3
    /\ previous.lines = OldArtifact
    /\ Sections(Lines) = 4

(* C14: for every body text, the empty one included, a call that returns   *)
(* Ok keeps the previous lines of the artifact as a prefix and appends     *)
(* exactly a blank line, the line [Additional Commands], the body text as  *)
(* given and a blank line.                                                 *)
C14_AppendsBodyAsGiven ==
    [][appends' = appends + 1 =>
        /\ artifact'.exists
        /\ artifact'.lines = artifact.lines \o
                << <<>>, SectionHeader, additional_commands, <<>> >>]_vars

\* the backing file of the store in use
Backing == backing[FileOf(config)]

\* the list a get_* would read from the backing file as it is now
Readback == from_str(config, read_to_string_or_default(Backing))

Corrupted == {"invalid json", "wrong shape"}

C17_MissingOrCorruptedGivesDefaults ==
    config = "presets" =>
        \A i \in 1..Len(history) :
            (history[i].op = "get" /\ history[i].found \in Corrupted \cup {"missing"}) =>
                /\ history[i].list = DefaultPresets
                /\ (i = Len(history) /\ Backing.writable) =>
                        Readback = Parsed(DefaultPresets, Len(Backing.data) + 1)

(* C18: for a well-formed backing file, a get_*, a save_* of the list it   *)
(* returned and a second get_* give twice the same list: the same records  *)
(* with the same values in the same order; a file edited by hand loads as  *)
(* the list it spells.                                                     *)
C18_RoundTrip ==
    \A i \in 1..Len(history) :
        (history[i].op = "get" /\ history[i].found \in {"canonical", "loose"}) =>
            /\ history[i].found = "loose" => history[i].list = LooseList(config)
            /\ (/\ i + 2 <= Len(history)
                /\ history[i + 1].op = "save" /\ history[i + 1].list = history[i].list
                /\ history[i + 2].op = "get") =>
                    history[i + 2].list = history[i].list

\* a presets.json edited by hand was loaded, saved back and loaded again
C18_Witness ==
    /\ config = "presets"
    /\ Backing.writable
    /\ Len(history) = 3
    /\ history[1].op = "get" /\ history[1].found = "loose"
    /\ history[2].op = "save" /\ history[2].list = history[1].list
    /\ history[3].op = "get" /\ history[3].list = LooseList("presets")
    /\ Backing.data # LooseText("presets")

\* the user gives no directory, or a directory and no mode
Cancelled ==
    /\ path_arg = "none"
    /\ user.dir = "none" \/ (user.dir = "dir" /\ user.mode = "none")

Exited == pc = "exited"

C20_MissingDirectoryExitsNonZero ==
    path_arg = "missing" =>
        /\ pc \in {"main", "exited"}
        /\ Exited => exit_status = "1"
        /\ ~invoked
        /\ appends = 0 /\ append_result = <<"none">>
        /\ artifact = previous

\* the run on a missing directory has exited, with an artifact of an earlier run on disk
C20_Witness ==
    /\ path_arg = "missing"
    /\ Exited
    /\ previous.lines = OldArtifact
    /\ artifact = previous

\* the run cannot produce the artifact: the directory argument is missing, the
\* selected path is no directory, or write_folder_tags or the append of the
\* commands failed
ArtifactNotProduced ==
    \/ path_arg = "missing"
    \/ path_arg = "none" /\ user.dir = "file"
    \/ result[1] = "Err"
    \/ append_result[1] = "Err"

(* C21: the process exits with status 1 on every run in which the artifact  *)
(* cannot be produced (directory argument missing, selected path not a      *)
(* directory, write_folder_tags failed, or the write of the additional      *)
(* commands failed), and with status 0 only on the other runs.              *)
C21_ExitStatusTellsOutcome ==
    Exited => (exit_status = "1" <=> ArtifactNotProduced)

(* C22: a failure of copy_to_clipboard (the artifact cannot be read, the    *)
(* clipboard cannot be opened, or the write to it fails) changes nothing of *)
(* the outcome: the process exits with status 0, and the artifact is left   *)
(* as it was after append_additional_commands.                              *)
C22_ClipboardFailureChangesNothing ==
    [][(pc = "clipboard" /\ copy_result'[1] = "Err") =>
            /\ pc' = "exited" /\ exit_status' = "0"
            /\ artifact' = artifact]_vars

\* the clipboard could not be opened after a run that wrote the artifact and
\* the commands
C22_Witness ==
    /\ Exited
    /\ copy_result = <<"Err", "open">>
    /\ append_result = <<"Ok">>
    /\ Len(artifact.lines) > 0

\* the lines append_additional_commands writes in this run
SectionLines == HeaderLines \o BodyLines(appender, additional_commands)

\* the artifact is: file blocks, the footer, the section of the commands
BlocksFooterSection ==
    LET n == Len(Lines) - Len(SectionLines) IN
        /\ n >= Len(Footer)
        /\ SubSeq(Lines, n + 1, Len(Lines)) = SectionLines
        /\ SubSeq(Lines, n - Len(Footer) + 1, n) = Footer
        /\ \A i \in 1..Len(Lines) :
                (\E e \in present : \E p \in TagPaths(e) :
                        Lines[i] \in {OpenTag(p), CloseTag(p)}) =>
                    i <= n - Len(Footer)

RootListingFailed == result = <<"Err", "read_dir">> /\ listed = {}

(* C30: write_folder_tags creates or truncates tags_output.txt before it    *)
(* lists the root directory: when that listing fails, as for a path         *)
(* argument that exists and is a regular file, the call returns an error,   *)
(* the process exits with status 1, and what an earlier run left in the     *)
(* artifact is gone: an empty artifact is on disk.                          *)
C30_RootListingFailureLeavesEmptyArtifact ==
    /\ (pc = "read_dir" /\ listed = {}) => artifact = [exists |-> TRUE, lines |-> <<>>]
    /\ RootListingFailed =>
            /\ artifact = [exists |-> TRUE, lines |-> <<>>]
            /\ pc \in {"done", "exited"}
            /\ Exited => exit_status = "1"
    /\ (path_arg = "file" /\ invoked /\ pc \in {"done", "exited"}) =>
            /\ result[1] = "Err"
            /\ Exited => exit_status = "1"

\* the path argument is a regular file and an earlier artifact was on disk: the
\* process has exited with status 1 and the artifact is empty
C30_Witness ==
    /\ path_arg = "file"
    /\ previous.lines = OldArtifact
    /\ Exited /\ exit_status = "1"
    /\ result = <<"Err", "read_dir">>
    /\ artifact = [exists |-> TRUE, lines |-> <<>>]

\* the root of the call has a name the walk would skip in a subdirectory
RootNameSkippable ==
    \/ starts_with(file_name(root_dir), ".")
    \/ contains(ignored_folders, to_lowercase(file_name(root_dir)))

(* C29 as stated: after a successful recursive call every readable regular  *)
(* file with an allowed extension that has no hidden or ignored folder      *)
(* above it (below the root) has exactly one tag pair, and the root itself  *)
(* was listed whatever its own name is.                                     *)
C29_EveryWalkedFileOnce ==
    (Succeeded /\ recursive) =>
        /\ root_dir \in listed
        /\ \A f \in Includable : Readable(f) => OnePair(f)

(* C29 amended: after a successful recursive call every readable regular    *)
(* file with an allowed extension whose path relative to the root is valid  *)
(* Unicode and that has no hidden or ignored folder above it (below the     *)
(* root) has exactly one tag pair, and the root itself was listed whatever  *)
(* its own name is.                                                         *)
C29_EveryWalkedUnicodeFileOnce ==
    (Succeeded /\ recursive) =>
        /\ root_dir \in listed
        /\ \A f \in Includable : (Readable(f) /\ ValidUnicode(f)) => OnePair(f)

\* the root is called target, an ignored name, and its files a.rs and
\* sub/file.rs were both written
C29_Witness ==
    /\ Succeeded /\ recursive
    /\ RootNameSkippable
    /\ present = {A_RS, SUB, SUB_FILE_RS}
    /\ OnePair(A_RS) /\ OnePair(SUB_FILE_RS)

Selected == selected_dir # "none" /\ selected_mode # "none"

(* C25: a click on OK closes the window and pushes the texts of the         *)
(* selected presets only when a directory and a mode are both selected;     *)
(* when one is missing it sets a warning, the window stays open, and        *)
(* preset_texts, selected_dir and selected_mode stay as they are.  So       *)
(* preset_texts is non-empty only after an OK that was accepted.            *)
C25_OKNeedsDirectoryAndMode ==
    /\ [][clicked' = "OK" /\ clicks' # clicks =>
            IF Selected
            THEN /\ window' = "closed"
                 /\ preset_texts' = preset_texts \o TextsOf(presets, selected_presets)
            ELSE /\ window' = "open"
                 /\ warning_message' \in {NoDirectoryWarning, NoModeWarning}
                 /\ UNCHANGED <<preset_texts, selected_dir, selected_mode>>]_vars
    /\ [][preset_texts' # preset_texts => clicked' = "OK" /\ Selected]_vars
    /\ [](preset_texts # <<>> => clicked = "OK" /\ window = "closed" /\ Selected)

\* a directory, a mode and a preset were selected, and OK closed the window with
\* the text of the preset pushed
C25_Witness ==
    /\ clicked = "OK"
    /\ window = "closed"
    /\ warning_message = ""
    /\ clicks = 4
    /\ Len(preset_texts) = 1

(* C26: after any sequence of clicks in the window (entries of the preset   *)
(* combo box, Add, Delete, the name and text fields, Save Changes, OK),     *)
(* selected_presets holds at most one name.                                 *)
C26_AtMostOnePresetSelected ==
    Cardinality(selected_presets) <= 1

\* a second entry of the combo box was clicked after a first
C26_Witness ==
    /\ clicked = "Preset Command"
    /\ clicks >= 2
    /\ Len(presets) >= 2
    /\ selected_presets = {presets[2].name}

\* presets.json
PresetsFile == backing[PRESET_FILE]

(* C27: adding a preset, deleting one, changing a name or a text in the     *)
(* preset manager changes the list in memory only.  presets.json is written *)
(* only by "Save Changes", or when the window is built and the file is      *)
(* missing; a save replaces what the file held by the whole list in memory  *)
(* (where the file can be written).                                         *)
C27_OnlySaveWritesPresets ==
    /\ [][clicked' \in {"Add New Preset", "Delete", "Name", "Text"} /\ clicks' # clicks =>
            backing' = backing]_vars
    /\ [][backing' # backing =>
            \/ /\ pc = "gui_new" /\ ~PresetsFile.exists
               /\ PresetsFile'.data = to_string_pretty("presets", DefaultPresets)
            \/ /\ clicked' = "Save Changes" /\ clicks' # clicks
               /\ PresetsFile'.data = to_string_pretty("presets", presets)]_vars
    /\ [][(clicked' = "Save Changes" /\ clicks' # clicks /\ PresetsFile.writable) =>
            /\ PresetsFile'.data = to_string_pretty("presets", presets)
            /\ unwrap_or_default(from_str("presets", PresetsFile'.data)) = presets]_vars

\* a list with a renamed preset was saved over a presets.json edited by hand
C27_Witness ==
    /\ clicked = "Save Changes"
    /\ backing0[PRESET_FILE].shape = "loose"
    /\ presets = << Record("presets", <<"Quick">>, LooseList("presets")[1].text) >>
    /\ PresetsFile.data = to_string_pretty("presets", presets)
    /\ PresetsFile.data # backing0[PRESET_FILE].data

(* C28: after any sequence of clicks in the preset manager (headers, Add,   *)
(* Delete), open_preset_index is None or an index into the preset list at   *)
(* which the preset stands that it was set for: deleting the preset at i    *)
(* while open_preset_index is j > i leaves no stale and no out-of-range     *)
(* index.                                                                   *)
C28_OpenIndexDesignatesExpandedPreset ==
    open_preset_index # <<>> =>
        /\ open_preset_index[1] \in 1..Len(presets)
        /\ ids[open_preset_index[1]] = designated

\* text t stands somewhere in text s
ContainsText(s, t) ==
    \E k \in 0..(Len(s) - Len(t)) : SubSeq(s, k + 1, k + Len(t)) = t

\* the lines of the artifact that open an [Additional Commands] section
SectionsAt == {k \in 1..Len(Lines) : Lines[k] = SectionHeader}

====
